---- MODULE Spec2Model ----
(***************************************************************************)
(* Model of the Bookings REST service's repository layer                   *)
(* (package database) over the PostgreSQL schema that CreateTables builds.  *)
(* Every repository function is one SQL statement, so every action is one   *)
(* atomic step over the tables.  The store's own rules (SERIAL keys,        *)
(* UNIQUE, REFERENCES, CHECK, enum types, column defaults, TIMESTAMPTZ       *)
(* resolution) are modelled from the DDL text of CreateTables.              *)
(*                                                                         *)
(* Go pointer fields (pointers to string, int, float64) are sets: {} is    *)
(* nil / SQL NULL and {v} is a pointer to v.  Instants are integers in      *)
(* nanoseconds, the resolution of Go's time.Time.                           *)
(***************************************************************************)
EXTENDS Integers, Sequences, FiniteSets, TLC

VARIABLES
    clinics,        \* table clinics:      id -> row
    patients,       \* table patients:     id -> row
    employees,      \* table employees:    id -> row
    services,       \* table services:     id -> row
    appointments,   \* table appointments: id -> row
    waiting_list,   \* table waiting_list: id -> row
    seq,            \* the SERIAL sequence of each table: the next id it hands out
    now,            \* the store's clock (CURRENT_TIMESTAMP), in nanoseconds
    last,           \* the last repository call: its name, arguments and results
    calls,          \* Create / Delete calls on the table under test that returned nil,
                    \* and how many of those Delete calls found their row
    reqs,           \* HTTP requests: request id -> handler state (pc, decoded body,
                    \* the call's error and id, the response status, and the
                    \* requests that were in flight during the call)
    under_test,     \* the table whose repository functions the caller exercises
    main,           \* where the process is: "InitDB", "CreateTables", "Run" (about
                    \* to listen), "serving" (past the bootstrap: repository
                    \* calls are made) or "exit" (log.Fatal ended it)
    DB,             \* the package variable DB of the process: "nil", or a pool
                    \* that is "open" or "closed"
    schema          \* the tables, enum types and indexes that exist in the store

vars == <<clinics, patients, employees, services, appointments, waiting_list,
          seq, now, last, calls, reqs, under_test, main, DB, schema>>

tables == <<clinics, patients, employees, services, appointments, waiting_list>>

----------------------------------------------------------------------------
(* Bounds of the model *)

\* the SERIAL sequence of the table under test is stopped after handing out
\* this many ids
MaxId == 2
\* Delete calls on the table under test that return nil: at most this many
MaxDeletes == 2
\* the clock advances this many times
MaxTicks == 1

(* Program constants *)

\* TIMESTAMPTZ keeps microseconds; time.Time keeps nanoseconds
NanosPerMicro == 1000
\* the zero value of an int field (an id or a foreign key left out of the JSON)
ZeroInt == 0
\* the zero time.Time of a record built without created_at
ZeroTime == 0
\* the clock's value when the tables are created
StartTime == 5 * NanosPerMicro

TableNames == {"clinics", "patients", "employees", "services",
               "appointments", "waiting_list"}

----------------------------------------------------------------------------
(* Errors a repository function returns *)

NoErr == "nil"
ErrNoRows == "ErrNoRows"                 \* pgx.ErrNoRows from QueryRow(...).Scan
UniqueViolation == "23505"
ForeignKeyViolation == "23503"
NotNullViolation == "23502"
CheckViolation == "23514"
InvalidEnum == "22P02"                   \* invalid input value for enum

\* the kind of the spec's taxonomy that an error value falls under
ErrorKind(err) ==
    CASE err = NoErr -> "OK"
      [] err = ErrNoRows -> "NotFound"
      [] err \in {UniqueViolation, ForeignKeyViolation, NotNullViolation,
                  CheckViolation} -> "ConstraintViolation"
      [] err = InvalidEnum -> "ValidationError"
      [] OTHER -> "Internal"

----------------------------------------------------------------------------
(* Helpers over tables *)

Nil == {}
Ptr(v) == {v}

\* the first failure of a list of <<violated, error>> checks, in the order
\* the store makes them
FirstError(checks) ==
    IF \E i \in 1..Len(checks) : checks[i][1]
    THEN checks[CHOOSE i \in 1..Len(checks) :
                   /\ checks[i][1]
                   /\ \A j \in 1..(i - 1) : ~checks[j][1]][2]
    ELSE NoErr

\* every enumeration of the set S, each element once
SeqsOf(S) ==
    {s \in [1..Cardinality(S) -> S] : \A i, j \in 1..Cardinality(S) : s[i] = s[j] => i = j}

\* the rows of table t as the sequences ORDER BY id allows: exactly one
OrderById(t) ==
    {s \in SeqsOf({t[i] : i \in DOMAIN t}) :
        \A i, j \in 1..Len(s) : i < j => s[i].id < s[j].id}

\* what a call leaves in `last`
Call(op, id, arg, err, out) ==
    [op |-> op, id |-> id, arg |-> arg, err |-> err, out |-> out]

\* a Create or Delete call on the table under test that returned nil is counted
Counted(t, kind, err) ==
    IF err = NoErr /\ t = under_test THEN [calls EXCEPT ![kind] = @ + 1] ELSE calls

\* the caller creates rows of table t: up to MaxId rows of the table under
\* test, and of every table that one refers to the one row its records name
\* (test_db.go creates one clinic, patient, employee and service per test)
SeqOpen(t) == IF t = under_test THEN seq[t] <= MaxId ELSE seq[t] = 1

\* a Delete call on the table under test that returned nil is counted, and
\* counted again when its row existed
CountedDelete(t, existed, err) ==
    IF err = NoErr /\ t = under_test
    THEN [calls EXCEPT !.deletes = @ + 1, !.removed = @ + (IF existed THEN 1 ELSE 0)]
    ELSE calls

\* one more Delete call on table t is followed
DeleteOpen(t) == t = under_test => calls.deletes < MaxDeletes

\* a TIMESTAMPTZ parameter: the instant, cut to whole microseconds
Timestamptz(t) == (t \div NanosPerMicro) * NanosPerMicro

----------------------------------------------------------------------------
(* Clinic: models.Clinic, table clinics *)

\* an INSERT INTO clinics that leaves `active` out of its column list, so
\* that the column takes DEFAULT TRUE
ClinicInsertRowDefaultActive(p, id) ==
    [id |-> id, name |-> p.name, address |-> p.address, phone |-> p.phone,
     email |-> p.email, active |-> TRUE]

\* the row INSERT INTO clinics (name, address, phone, email, active) stores
\* under the id the sequence gave
ClinicInsertRow(p, id) ==
    [id |-> id, name |-> p.name, address |-> p.address, phone |-> p.phone,
     email |-> p.email, active |-> p.active]

\* UPDATE clinics SET name, address, phone, email, active: the row afterwards
ClinicUpdateRow(old, p) ==
    [id |-> old.id, name |-> p.name, address |-> p.address, phone |-> p.phone,
     email |-> p.email, active |-> p.active]

\* name TEXT NOT NULL UNIQUE: another row (not row `self`) holds the name
ClinicNameTaken(name, self) ==
    \E i \in DOMAIN clinics : i /= self /\ clinics[i].name = name

\* the references to clinics(id) if employees.clinic_id were no foreign key
ClinicReferencedByAppointmentsOnly(id) ==
    \E a \in DOMAIN appointments : appointments[a].clinic_id = id

\* rows of tables that REFERENCES clinics(id) with no ON DELETE clause
ClinicReferenced(id) ==
    \/ \E e \in DOMAIN employees : employees[e].clinic_id = id
    \/ \E a \in DOMAIN appointments : appointments[a].clinic_id = id

\* a GetClinic that drops the error of Scan and returns what it has
QueryRowClinicNeverFails(id) ==
    [err |-> NoErr, out |-> IF id \in DOMAIN clinics THEN <<clinics[id]>> ELSE <<>>]

\* SELECT ... FROM clinics WHERE id = $1, scanned into a models.Clinic
QueryRowClinic(id) ==
    IF id \in DOMAIN clinics
    THEN [err |-> NoErr, out |-> <<clinics[id]>>]
    ELSE [err |-> ErrNoRows, out |-> <<>>]

\* SELECT ... FROM clinics WHERE active ORDER BY id
QueryClinicsActiveOnly ==
    {s \in SeqsOf({clinics[i] : i \in {j \in DOMAIN clinics : clinics[j].active}}) :
        \A i, j \in 1..Len(s) : i < j => s[i].id < s[j].id}

\* SELECT ... FROM clinics ORDER BY id: no WHERE clause
QueryClinics == OrderById(clinics)

GetClinics ==
    /\ \E s \in QueryClinics : last' = Call("GetClinics", ZeroInt, {}, NoErr, s)
    /\ UNCHANGED <<tables, seq, now, calls, reqs, under_test, main, DB, schema>>

GetClinic(id) ==
    /\ last' = Call("GetClinic", id, {}, QueryRowClinic(id).err, QueryRowClinic(id).out)
    /\ UNCHANGED <<tables, seq, now, calls, reqs, under_test, main, DB, schema>>

\* a create that numbers its row one past the largest id stored and takes
\* nothing from the sequence
CreateClinicNextFreeId(p) ==
    /\ SeqOpen("clinics")
    /\ LET id == IF clinics = <<>> THEN 1
                 ELSE 1 + CHOOSE m \in DOMAIN clinics : \A i \in DOMAIN clinics : i <= m
           err == FirstError(<< <<ClinicNameTaken(p.name, ZeroInt), UniqueViolation>> >>)
       IN  /\ seq' = seq
           /\ clinics' = IF err = NoErr
                         THEN [i \in DOMAIN clinics \cup {id} |->
                                 IF i = id THEN ClinicInsertRow(p, id) ELSE clinics[i]]
                         ELSE clinics
           /\ last' = Call("CreateClinic", ZeroInt, {p}, err,
                           <<IF err = NoErr THEN [p EXCEPT !.id = id] ELSE p>>)
           /\ calls' = Counted("clinics", "creates", err)
    /\ UNCHANGED <<patients, employees, services, appointments, waiting_list, now, reqs, under_test, main, DB, schema>>

CreateClinic(p) ==
    /\ SeqOpen("clinics")
    /\ LET id == seq.clinics
           err == FirstError(<< <<ClinicNameTaken(p.name, ZeroInt), UniqueViolation>> >>)
       IN  /\ seq' = [seq EXCEPT !.clinics = @ + 1]
           /\ clinics' = IF err = NoErr
                         THEN [i \in DOMAIN clinics \cup {id} |->
                                 IF i = id THEN ClinicInsertRow(p, id) ELSE clinics[i]]
                         ELSE clinics
           /\ last' = Call("CreateClinic", ZeroInt, {p}, err,
                           <<IF err = NoErr THEN [p EXCEPT !.id = id] ELSE p>>)
           /\ calls' = Counted("clinics", "creates", err)
    /\ UNCHANGED <<patients, employees, services, appointments, waiting_list, now, reqs, under_test, main, DB, schema>>

\* an update in two statements, the address first and the other columns
\* after it, with no transaction around them
UpdateClinicTwoStatements(id, p) ==
    /\ LET err == IF id \in DOMAIN clinics
                  THEN FirstError(<< <<ClinicNameTaken(p.name, id), UniqueViolation>> >>)
                  ELSE NoErr
       IN  /\ clinics' = IF id \in DOMAIN clinics
                         THEN IF err = NoErr
                              THEN [clinics EXCEPT ![id] = ClinicUpdateRow(@, p)]
                              ELSE [clinics EXCEPT ![id].address = p.address]
                         ELSE clinics
           /\ last' = Call("UpdateClinic", id, {p}, err, <<>>)
    /\ UNCHANGED <<patients, employees, services, appointments, waiting_list,
                   seq, now, calls, reqs, under_test, main, DB, schema>>

UpdateClinic(id, p) ==
    /\ LET err == IF id \in DOMAIN clinics
                  THEN FirstError(<< <<ClinicNameTaken(p.name, id), UniqueViolation>> >>)
                  ELSE NoErr
       IN  /\ clinics' = IF id \in DOMAIN clinics /\ err = NoErr
                         THEN [clinics EXCEPT ![id] = ClinicUpdateRow(@, p)]
                         ELSE clinics
           /\ last' = Call("UpdateClinic", id, {p}, err, <<>>)
    /\ UNCHANGED <<patients, employees, services, appointments, waiting_list,
                   seq, now, calls, reqs, under_test, main, DB, schema>>

DeleteClinic(id) ==
    /\ DeleteOpen("clinics")
    /\ LET err == IF id \in DOMAIN clinics /\ ClinicReferenced(id)
                  THEN ForeignKeyViolation ELSE NoErr
       IN  /\ clinics' = IF err = NoErr
                         THEN [i \in DOMAIN clinics \ {id} |-> clinics[i]]
                         ELSE clinics
           /\ last' = Call("DeleteClinic", id, {}, err, <<>>)
           /\ calls' = CountedDelete("clinics", id \in DOMAIN clinics, err)
    /\ UNCHANGED <<patients, employees, services, appointments, waiting_list,
                   seq, now, reqs, under_test, main, DB, schema>>

----------------------------------------------------------------------------
(* Patient: models.Patient, table patients *)

\* INSERT INTO patients (...11 columns...): created_at is not among them and
\* takes DEFAULT CURRENT_TIMESTAMP
PatientInsertRow(p, id) ==
    [id |-> id, first_name |-> p.first_name, last_name |-> p.last_name,
     email |-> p.email, phone |-> p.phone, date_of_birth |-> p.date_of_birth,
     medical_record_number |-> p.medical_record_number,
     insurance_provider |-> p.insurance_provider, insurance_id |-> p.insurance_id,
     emergency_contact_name |-> p.emergency_contact_name,
     emergency_contact_phone |-> p.emergency_contact_phone,
     active |-> p.active, created_at |-> now]

\* UPDATE patients SET ...11 columns...: id and created_at stay
PatientUpdateRow(old, p) ==
    [id |-> old.id, first_name |-> p.first_name, last_name |-> p.last_name,
     email |-> p.email, phone |-> p.phone, date_of_birth |-> p.date_of_birth,
     medical_record_number |-> p.medical_record_number,
     insurance_provider |-> p.insurance_provider, insurance_id |-> p.insurance_id,
     emergency_contact_name |-> p.emergency_contact_name,
     emergency_contact_phone |-> p.emergency_contact_phone,
     active |-> p.active, created_at |-> old.created_at]

\* the UNIQUE columns of patients if an empty Go string were sent as NULL,
\* which no UNIQUE constraint compares
PatientKeyTakenEmptyIsNull(p, self) ==
    \E i \in DOMAIN patients :
        /\ i /= self
        /\ \/ p.email /= "" /\ patients[i].email = p.email
           \/ /\ p.medical_record_number /= ""
              /\ patients[i].medical_record_number = p.medical_record_number

\* email TEXT UNIQUE, medical_record_number TEXT UNIQUE (a Go string is never NULL)
PatientKeyTaken(p, self) ==
    \E i \in DOMAIN patients :
        /\ i /= self
        /\ \/ patients[i].email = p.email
           \/ patients[i].medical_record_number = p.medical_record_number

\* appointments.patient_id and waiting_list.patient_id REFERENCES patients(id)
PatientReferenced(id) ==
    \/ \E a \in DOMAIN appointments : appointments[a].patient_id = id
    \/ \E w \in DOMAIN waiting_list : waiting_list[w].patient_id = id

QueryRowPatient(id) ==
    IF id \in DOMAIN patients
    THEN [err |-> NoErr, out |-> <<patients[id]>>]
    ELSE [err |-> ErrNoRows, out |-> <<>>]

QueryPatients == OrderById(patients)

GetPatients ==
    /\ \E s \in QueryPatients : last' = Call("GetPatients", ZeroInt, {}, NoErr, s)
    /\ UNCHANGED <<tables, seq, now, calls, reqs, under_test, main, DB, schema>>

GetPatient(id) ==
    /\ last' = Call("GetPatient", id, {}, QueryRowPatient(id).err, QueryRowPatient(id).out)
    /\ UNCHANGED <<tables, seq, now, calls, reqs, under_test, main, DB, schema>>

CreatePatient(p) ==
    /\ SeqOpen("patients")
    /\ LET id == seq.patients
           err == FirstError(<< <<PatientKeyTaken(p, ZeroInt), UniqueViolation>> >>)
       IN  /\ seq' = [seq EXCEPT !.patients = @ + 1]
           /\ patients' = IF err = NoErr
                          THEN [i \in DOMAIN patients \cup {id} |->
                                  IF i = id THEN PatientInsertRow(p, id) ELSE patients[i]]
                          ELSE patients
           /\ last' = Call("CreatePatient", ZeroInt, {p}, err,
                           <<IF err = NoErr THEN [p EXCEPT !.id = id] ELSE p>>)
           /\ calls' = Counted("patients", "creates", err)
    /\ UNCHANGED <<clinics, employees, services, appointments, waiting_list, now, reqs, under_test, main, DB, schema>>

UpdatePatient(id, p) ==
    /\ LET err == IF id \in DOMAIN patients
                  THEN FirstError(<< <<PatientKeyTaken(p, id), UniqueViolation>> >>)
                  ELSE NoErr
       IN  /\ patients' = IF id \in DOMAIN patients /\ err = NoErr
                          THEN [patients EXCEPT ![id] = PatientUpdateRow(@, p)]
                          ELSE patients
           /\ last' = Call("UpdatePatient", id, {p}, err, <<>>)
    /\ UNCHANGED <<clinics, employees, services, appointments, waiting_list,
                   seq, now, calls, reqs, under_test, main, DB, schema>>

DeletePatient(id) ==
    /\ DeleteOpen("patients")
    /\ LET err == IF id \in DOMAIN patients /\ PatientReferenced(id)
                  THEN ForeignKeyViolation ELSE NoErr
       IN  /\ patients' = IF err = NoErr
                          THEN [i \in DOMAIN patients \ {id} |-> patients[i]]
                          ELSE patients
           /\ last' = Call("DeletePatient", id, {}, err, <<>>)
           /\ calls' = CountedDelete("patients", id \in DOMAIN patients, err)
    /\ UNCHANGED <<clinics, employees, services, appointments, waiting_list,
                   seq, now, reqs, under_test, main, DB, schema>>

----------------------------------------------------------------------------
(* Employee: models.Employee, table employees *)

\* INSERT INTO employees (...9 columns...): created_at takes its default
EmployeeInsertRow(p, id) ==
    [id |-> id, clinic_id |-> p.clinic_id, first_name |-> p.first_name,
     last_name |-> p.last_name, email |-> p.email, phone |-> p.phone,
     license_number |-> p.license_number, specialty |-> p.specialty,
     timezone |-> p.timezone, active |-> p.active, created_at |-> now]

\* UPDATE employees SET ...9 columns...: id and created_at stay
EmployeeUpdateRow(old, p) ==
    [id |-> old.id, clinic_id |-> p.clinic_id, first_name |-> p.first_name,
     last_name |-> p.last_name, email |-> p.email, phone |-> p.phone,
     license_number |-> p.license_number, specialty |-> p.specialty,
     timezone |-> p.timezone, active |-> p.active, created_at |-> old.created_at]

\* email TEXT UNIQUE, license_number TEXT UNIQUE
EmployeeKeyTaken(p, self) ==
    \E i \in DOMAIN employees :
        /\ i /= self
        /\ \/ employees[i].email = p.email
           \/ employees[i].license_number = p.license_number

\* clinic_id INTEGER NOT NULL REFERENCES clinics(id)
EmployeeParentsMissing(p) == p.clinic_id \notin DOMAIN clinics

\* a store in which a deleted appointment goes on referring to its employee
EmployeeReferencedOnceBooked(id) ==
    \/ seq.appointments > 1
    \/ \E w \in DOMAIN waiting_list : waiting_list[w].preferred_employee_id = Ptr(id)

\* appointments.employee_id and waiting_list.preferred_employee_id
\* REFERENCES employees(id) with no ON DELETE clause; the auxiliary tables
\* that reference employees are never written and stay empty
EmployeeReferenced(id) ==
    \/ \E a \in DOMAIN appointments : appointments[a].employee_id = id
    \/ \E w \in DOMAIN waiting_list : waiting_list[w].preferred_employee_id = Ptr(id)

QueryRowEmployee(id) ==
    IF id \in DOMAIN employees
    THEN [err |-> NoErr, out |-> <<employees[id]>>]
    ELSE [err |-> ErrNoRows, out |-> <<>>]

QueryEmployees == OrderById(employees)

GetEmployees ==
    /\ \E s \in QueryEmployees : last' = Call("GetEmployees", ZeroInt, {}, NoErr, s)
    /\ UNCHANGED <<tables, seq, now, calls, reqs, under_test, main, DB, schema>>

GetEmployee(id) ==
    /\ last' = Call("GetEmployee", id, {}, QueryRowEmployee(id).err, QueryRowEmployee(id).out)
    /\ UNCHANGED <<tables, seq, now, calls, reqs, under_test, main, DB, schema>>

CreateEmployee(p) ==
    /\ SeqOpen("employees")
    /\ LET id == seq.employees
           err == FirstError(<< <<EmployeeKeyTaken(p, ZeroInt), UniqueViolation>>,
                                <<EmployeeParentsMissing(p), ForeignKeyViolation>> >>)
       IN  /\ seq' = [seq EXCEPT !.employees = @ + 1]
           /\ employees' = IF err = NoErr
                           THEN [i \in DOMAIN employees \cup {id} |->
                                   IF i = id THEN EmployeeInsertRow(p, id) ELSE employees[i]]
                           ELSE employees
           /\ last' = Call("CreateEmployee", ZeroInt, {p}, err,
                           <<IF err = NoErr THEN [p EXCEPT !.id = id] ELSE p>>)
           /\ calls' = Counted("employees", "creates", err)
    /\ UNCHANGED <<clinics, patients, services, appointments, waiting_list, now, reqs, under_test, main, DB, schema>>

UpdateEmployee(id, p) ==
    /\ LET err == IF id \in DOMAIN employees
                  THEN FirstError(<< <<EmployeeKeyTaken(p, id), UniqueViolation>>,
                                     <<EmployeeParentsMissing(p), ForeignKeyViolation>> >>)
                  ELSE NoErr
       IN  /\ employees' = IF id \in DOMAIN employees /\ err = NoErr
                           THEN [employees EXCEPT ![id] = EmployeeUpdateRow(@, p)]
                           ELSE employees
           /\ last' = Call("UpdateEmployee", id, {p}, err, <<>>)
    /\ UNCHANGED <<clinics, patients, services, appointments, waiting_list,
                   seq, now, calls, reqs, under_test, main, DB, schema>>

DeleteEmployee(id) ==
    /\ DeleteOpen("employees")
    /\ LET err == IF id \in DOMAIN employees /\ EmployeeReferenced(id)
                  THEN ForeignKeyViolation ELSE NoErr
       IN  /\ employees' = IF err = NoErr
                           THEN [i \in DOMAIN employees \ {id} |-> employees[i]]
                           ELSE employees
           /\ last' = Call("DeleteEmployee", id, {}, err, <<>>)
           /\ calls' = CountedDelete("employees", id \in DOMAIN employees, err)
    /\ UNCHANGED <<clinics, patients, services, appointments, waiting_list,
                   seq, now, reqs, under_test, main, DB, schema>>

----------------------------------------------------------------------------
(* Service: models.Service, table services *)

\* INSERT INTO services (name, description, duration_minutes, price,
\* specialty_required, active)
ServiceInsertRow(p, id) ==
    [id |-> id, name |-> p.name, description |-> p.description,
     duration_minutes |-> p.duration_minutes, price |-> p.price,
     specialty_required |-> p.specialty_required, active |-> p.active]

\* UPDATE services SET ...6 columns...
ServiceUpdateRow(old, p) ==
    [id |-> old.id, name |-> p.name, description |-> p.description,
     duration_minutes |-> p.duration_minutes, price |-> p.price,
     specialty_required |-> p.specialty_required, active |-> p.active]

\* duration_minutes INTEGER NOT NULL CHECK (duration_minutes > 0)
ServiceCheckFails(p) == ~(p.duration_minutes > 0)

\* name TEXT NOT NULL UNIQUE
ServiceNameTaken(name, self) ==
    \E i \in DOMAIN services : i /= self /\ services[i].name = name

\* appointments.service_id and waiting_list.service_id REFERENCES services(id)
ServiceReferenced(id) ==
    \/ \E a \in DOMAIN appointments : appointments[a].service_id = id
    \/ \E w \in DOMAIN waiting_list : waiting_list[w].service_id = id

QueryRowService(id) ==
    IF id \in DOMAIN services
    THEN [err |-> NoErr, out |-> <<services[id]>>]
    ELSE [err |-> ErrNoRows, out |-> <<>>]

QueryServices == OrderById(services)

GetServices ==
    /\ \E s \in QueryServices : last' = Call("GetServices", ZeroInt, {}, NoErr, s)
    /\ UNCHANGED <<tables, seq, now, calls, reqs, under_test, main, DB, schema>>

GetService(id) ==
    /\ last' = Call("GetService", id, {}, QueryRowService(id).err, QueryRowService(id).out)
    /\ UNCHANGED <<tables, seq, now, calls, reqs, under_test, main, DB, schema>>

CreateService(p) ==
    /\ SeqOpen("services")
    /\ LET id == seq.services
           err == FirstError(<< <<ServiceCheckFails(p), CheckViolation>>,
                                <<ServiceNameTaken(p.name, ZeroInt), UniqueViolation>> >>)
       IN  /\ seq' = [seq EXCEPT !.services = @ + 1]
           /\ services' = IF err = NoErr
                          THEN [i \in DOMAIN services \cup {id} |->
                                  IF i = id THEN ServiceInsertRow(p, id) ELSE services[i]]
                          ELSE services
           /\ last' = Call("CreateService", ZeroInt, {p}, err,
                           <<IF err = NoErr THEN [p EXCEPT !.id = id] ELSE p>>)
           /\ calls' = Counted("services", "creates", err)
    /\ UNCHANGED <<clinics, patients, employees, appointments, waiting_list, now, reqs, under_test, main, DB, schema>>

UpdateService(id, p) ==
    /\ LET err == IF id \in DOMAIN services
                  THEN FirstError(<< <<ServiceCheckFails(p), CheckViolation>>,
                                     <<ServiceNameTaken(p.name, id), UniqueViolation>> >>)
                  ELSE NoErr
       IN  /\ services' = IF id \in DOMAIN services /\ err = NoErr
                          THEN [services EXCEPT ![id] = ServiceUpdateRow(@, p)]
                          ELSE services
           /\ last' = Call("UpdateService", id, {p}, err, <<>>)
    /\ UNCHANGED <<clinics, patients, employees, appointments, waiting_list,
                   seq, now, calls, reqs, under_test, main, DB, schema>>

DeleteService(id) ==
    /\ DeleteOpen("services")
    /\ LET err == IF id \in DOMAIN services /\ ServiceReferenced(id)
                  THEN ForeignKeyViolation ELSE NoErr
       IN  /\ services' = IF err = NoErr
                          THEN [i \in DOMAIN services \ {id} |-> services[i]]
                          ELSE services
           /\ last' = Call("DeleteService", id, {}, err, <<>>)
           /\ calls' = CountedDelete("services", id \in DOMAIN services, err)
    /\ UNCHANGED <<clinics, patients, employees, appointments, waiting_list,
                   seq, now, reqs, under_test, main, DB, schema>>

----------------------------------------------------------------------------
(* Appointment: models.Appointment, table appointments *)

\* CREATE TYPE appointment_status / appointment_type / payment_status AS ENUM
AppointmentStatus ==
    {"SCHEDULED", "CONFIRMED", "IN_PROGRESS", "COMPLETED", "CANCELLED", "NO_SHOW"}
AppointmentType == {"INITIAL_CONSULTATION", "FOLLOW_UP", "PROCEDURE", "EMERGENCY"}
PaymentStatus == {"PENDING", "PAID", "REFUNDED"}

\* an INSERT INTO appointments that names all thirteen columns a caller can
\* fill, medical_notes and cancellation_reason included
AppointmentInsertRowThirteenColumns(p, id) ==
    [id |-> id, patient_id |-> p.patient_id, employee_id |-> p.employee_id,
     service_id |-> p.service_id, clinic_id |-> p.clinic_id,
     start_datetime |-> Timestamptz(p.start_datetime),
     end_datetime |-> Timestamptz(p.end_datetime),
     status |-> p.status, appointment_type |-> p.appointment_type,
     notes |-> p.notes, medical_notes |-> p.medical_notes,
     cancellation_reason |-> p.cancellation_reason,
     payment_status |-> p.payment_status, payment_amount |-> p.payment_amount,
     created_at |-> now, updated_at |-> now]

\* INSERT INTO appointments (...11 columns...): medical_notes and
\* cancellation_reason are not among them and stay NULL; created_at and
\* updated_at take DEFAULT CURRENT_TIMESTAMP; the instants are sent as
\* StartDatetime.UTC() / EndDatetime.UTC() into TIMESTAMPTZ columns
AppointmentInsertRow(p, id) ==
    [id |-> id, patient_id |-> p.patient_id, employee_id |-> p.employee_id,
     service_id |-> p.service_id, clinic_id |-> p.clinic_id,
     start_datetime |-> Timestamptz(p.start_datetime),
     end_datetime |-> Timestamptz(p.end_datetime),
     status |-> p.status, appointment_type |-> p.appointment_type,
     notes |-> p.notes, medical_notes |-> Nil, cancellation_reason |-> Nil,
     payment_status |-> p.payment_status, payment_amount |-> p.payment_amount,
     created_at |-> now, updated_at |-> now]

\* an UPDATE appointments that sets only the 11 columns of the INSERT and
\* leaves medical_notes and cancellation_reason as they are
AppointmentUpdateRowElevenColumns(old, p) ==
    [id |-> old.id, patient_id |-> p.patient_id, employee_id |-> p.employee_id,
     service_id |-> p.service_id, clinic_id |-> p.clinic_id,
     start_datetime |-> Timestamptz(p.start_datetime),
     end_datetime |-> Timestamptz(p.end_datetime),
     status |-> p.status, appointment_type |-> p.appointment_type,
     notes |-> p.notes, medical_notes |-> old.medical_notes,
     cancellation_reason |-> old.cancellation_reason,
     payment_status |-> p.payment_status, payment_amount |-> p.payment_amount,
     created_at |-> old.created_at, updated_at |-> now]

\* UPDATE appointments SET ...13 columns..., updated_at = CURRENT_TIMESTAMP
AppointmentUpdateRow(old, p) ==
    [id |-> old.id, patient_id |-> p.patient_id, employee_id |-> p.employee_id,
     service_id |-> p.service_id, clinic_id |-> p.clinic_id,
     start_datetime |-> Timestamptz(p.start_datetime),
     end_datetime |-> Timestamptz(p.end_datetime),
     status |-> p.status, appointment_type |-> p.appointment_type,
     notes |-> p.notes, medical_notes |-> p.medical_notes,
     cancellation_reason |-> p.cancellation_reason,
     payment_status |-> p.payment_status, payment_amount |-> p.payment_amount,
     created_at |-> old.created_at, updated_at |-> now]

\* a store that takes the empty string for "no value" and lets the column
\* keep what was sent
AppointmentEnumInvalidButEmpty(p) ==
    \/ p.status \notin AppointmentStatus \cup {""}
    \/ ~(p.appointment_type \subseteq AppointmentType)
    \/ p.payment_status \notin PaymentStatus \cup {""}

\* a parameter that is no value of its enum type (the empty string of an
\* omitted JSON field included) is refused before the statement runs
AppointmentEnumInvalid(p) ==
    \/ p.status \notin AppointmentStatus
    \/ ~(p.appointment_type \subseteq AppointmentType)
    \/ p.payment_status \notin PaymentStatus

\* patient_id, employee_id, service_id, clinic_id: NOT NULL REFERENCES
AppointmentParentsMissing(p) ==
    \/ p.patient_id \notin DOMAIN patients
    \/ p.employee_id \notin DOMAIN employees
    \/ p.service_id \notin DOMAIN services
    \/ p.clinic_id \notin DOMAIN clinics

\* exclusion_violation, the error of an EXCLUDE constraint
ExclusionViolation == "23P01"

\* an overlap check that takes every stored active row of the employee, the
\* row an UPDATE is about to replace included
AppointmentRowErrorOverlapOwnRow(p) ==
    FirstError(<< <<AppointmentParentsMissing(p), ForeignKeyViolation>>,
                  <<\E j \in DOMAIN appointments :
                        /\ appointments[j].employee_id = p.employee_id
                        /\ appointments[j].status \notin {"CANCELLED", "NO_SHOW"}
                        /\ appointments[j].start_datetime < p.end_datetime
                        /\ p.start_datetime < appointments[j].end_datetime,
                    ExclusionViolation>> >>)

\* an overlap check on INSERT that takes every stored row of the employee,
\* whatever its status
AppointmentRowErrorOverlapAnyStatus(p) ==
    FirstError(<< <<AppointmentParentsMissing(p), ForeignKeyViolation>>,
                  <<\E j \in DOMAIN appointments :
                        /\ appointments[j].employee_id = p.employee_id
                        /\ appointments[j].start_datetime < p.end_datetime
                        /\ p.start_datetime < appointments[j].end_datetime,
                    ExclusionViolation>> >>)

\* the checks the appointments DDL makes on a row to store: the four
\* references and nothing else (no CHECK, no UNIQUE, no EXCLUDE)
AppointmentRowError(p) ==
    FirstError(<< <<AppointmentParentsMissing(p), ForeignKeyViolation>> >>)

QueryRowAppointment(id) ==
    IF id \in DOMAIN appointments
    THEN [err |-> NoErr, out |-> <<appointments[id]>>]
    ELSE [err |-> ErrNoRows, out |-> <<>>]

\* SELECT ... FROM appointments ORDER BY start_datetime DESC: rows with the
\* same start_datetime come in any order
QueryAppointments ==
    {s \in SeqsOf({appointments[i] : i \in DOMAIN appointments}) :
        \A i, j \in 1..Len(s) : i < j => s[i].start_datetime >= s[j].start_datetime}

GetAppointments ==
    /\ \E s \in QueryAppointments :
           last' = Call("GetAppointments", ZeroInt, {}, NoErr, s)
    /\ UNCHANGED <<tables, seq, now, calls, reqs, under_test, main, DB, schema>>

GetAppointment(id) ==
    /\ last' = Call("GetAppointment", id, {}, QueryRowAppointment(id).err,
                    QueryRowAppointment(id).out)
    /\ UNCHANGED <<tables, seq, now, calls, reqs, under_test, main, DB, schema>>

\* the statement of CreateAppointment: its error, the tables and the
\* sequence afterwards
InsertAppointment(p) ==
    LET id == seq.appointments
        err == IF AppointmentEnumInvalid(p) THEN InvalidEnum ELSE AppointmentRowError(p)
    IN  [err |-> err,
         id |-> id,
         seq |-> IF err = InvalidEnum THEN seq ELSE [seq EXCEPT !.appointments = @ + 1],
         rows |-> IF err = NoErr
                  THEN [i \in DOMAIN appointments \cup {id} |->
                          IF i = id THEN AppointmentInsertRow(p, id) ELSE appointments[i]]
                  ELSE appointments]

\* database.CreateAppointment, whoever calls it
DatabaseCreateAppointment(p) ==
    /\ SeqOpen("appointments")
    /\ LET r == InsertAppointment(p)
       IN  /\ seq' = r.seq
           /\ appointments' = r.rows
           /\ last' = Call("CreateAppointment", ZeroInt, {p}, r.err,
                           <<IF r.err = NoErr THEN [p EXCEPT !.id = r.id] ELSE p>>)
           /\ calls' = Counted("appointments", "creates", r.err)
    /\ UNCHANGED <<clinics, patients, employees, services, waiting_list, now, under_test, main, DB, schema>>

\* called directly, as test_db.go does
CreateAppointment(p) ==
    /\ DatabaseCreateAppointment(p)
    /\ UNCHANGED reqs

\* an UPDATE appointments without its WHERE clause: every row is replaced
UpdateAppointmentNoWhere(id, p) ==
    /\ LET err == IF AppointmentEnumInvalid(p) THEN InvalidEnum
                  ELSE IF appointments /= <<>> THEN AppointmentRowError(p)
                  ELSE NoErr
       IN  /\ appointments' = IF err = NoErr
                              THEN [i \in DOMAIN appointments |->
                                        AppointmentUpdateRow(appointments[i], p)]
                              ELSE appointments
           /\ last' = Call("UpdateAppointment", id, {p}, err, <<>>)
    /\ UNCHANGED <<clinics, patients, employees, services, waiting_list,
                   seq, now, calls, reqs, under_test, main, DB, schema>>

UpdateAppointment(id, p) ==
    /\ LET err == IF AppointmentEnumInvalid(p) THEN InvalidEnum
                  ELSE IF id \in DOMAIN appointments THEN AppointmentRowError(p)
                  ELSE NoErr
       IN  /\ appointments' = IF id \in DOMAIN appointments /\ err = NoErr
                              THEN [appointments EXCEPT ![id] = AppointmentUpdateRow(@, p)]
                              ELSE appointments
           /\ last' = Call("UpdateAppointment", id, {p}, err, <<>>)
    /\ UNCHANGED <<clinics, patients, employees, services, waiting_list,
                   seq, now, calls, reqs, under_test, main, DB, schema>>

\* a DeleteAppointment that looks at the rows affected and reports a delete
\* that found no row
DeleteAppointmentRowsAffected(id) ==
    /\ DeleteOpen("appointments")
    /\ appointments' = [i \in DOMAIN appointments \ {id} |-> appointments[i]]
    /\ last' = Call("DeleteAppointment", id, {},
                    IF id \in DOMAIN appointments THEN NoErr ELSE ErrNoRows, <<>>)
    /\ calls' = CountedDelete("appointments", id \in DOMAIN appointments, NoErr)
    /\ UNCHANGED <<clinics, patients, employees, services, waiting_list,
                   seq, now, reqs, under_test, main, DB, schema>>

DeleteAppointment(id) ==
    /\ DeleteOpen("appointments")
    /\ appointments' = [i \in DOMAIN appointments \ {id} |-> appointments[i]]
    /\ last' = Call("DeleteAppointment", id, {}, NoErr, <<>>)
    /\ calls' = CountedDelete("appointments", id \in DOMAIN appointments, NoErr)
    /\ UNCHANGED <<clinics, patients, employees, services, waiting_list,
                   seq, now, reqs, under_test, main, DB, schema>>

----------------------------------------------------------------------------
(* WaitingList: models.WaitingList, table waiting_list *)

\* CREATE TYPE urgency_level / waiting_list_status AS ENUM
UrgencyLevel == {"LOW", "MEDIUM", "HIGH", "URGENT"}
WaitingListStatus == {"ACTIVE", "CONTACTED", "SCHEDULED", "EXPIRED"}

\* INSERT INTO waiting_list (...7 columns...): created_at takes its default
WaitingListInsertRow(p, id) ==
    [id |-> id, patient_id |-> p.patient_id, service_id |-> p.service_id,
     preferred_employee_id |-> p.preferred_employee_id,
     requested_date |-> p.requested_date, urgency_level |-> p.urgency_level,
     notes |-> p.notes, status |-> p.status, created_at |-> now]

\* UPDATE waiting_list SET ...7 columns...
WaitingListUpdateRow(old, p) ==
    [id |-> old.id, patient_id |-> p.patient_id, service_id |-> p.service_id,
     preferred_employee_id |-> p.preferred_employee_id,
     requested_date |-> p.requested_date, urgency_level |-> p.urgency_level,
     notes |-> p.notes, status |-> p.status, created_at |-> old.created_at]

WaitingListEnumInvalid(p) ==
    \/ p.urgency_level \notin UrgencyLevel
    \/ p.status \notin WaitingListStatus

\* patient_id, service_id: NOT NULL REFERENCES; preferred_employee_id:
\* REFERENCES employees(id), NULL allowed
WaitingListParentsMissing(p) ==
    \/ p.patient_id \notin DOMAIN patients
    \/ p.service_id \notin DOMAIN services
    \/ ~(p.preferred_employee_id \subseteq DOMAIN employees)

QueryRowWaitingList(id) ==
    IF id \in DOMAIN waiting_list
    THEN [err |-> NoErr, out |-> <<waiting_list[id]>>]
    ELSE [err |-> ErrNoRows, out |-> <<>>]

\* SELECT ... FROM waiting_list ORDER BY created_at DESC
QueryWaitingList ==
    {s \in SeqsOf({waiting_list[i] : i \in DOMAIN waiting_list}) :
        \A i, j \in 1..Len(s) : i < j => s[i].created_at >= s[j].created_at}

GetWaitingList ==
    /\ \E s \in QueryWaitingList :
           last' = Call("GetWaitingList", ZeroInt, {}, NoErr, s)
    /\ UNCHANGED <<tables, seq, now, calls, reqs, under_test, main, DB, schema>>

GetWaitingListItem(id) ==
    /\ last' = Call("GetWaitingListItem", id, {}, QueryRowWaitingList(id).err,
                    QueryRowWaitingList(id).out)
    /\ UNCHANGED <<tables, seq, now, calls, reqs, under_test, main, DB, schema>>

CreateWaitingListItem(p) ==
    /\ SeqOpen("waiting_list")
    /\ LET id == seq.waiting_list
           err == IF WaitingListEnumInvalid(p) THEN InvalidEnum
                  ELSE FirstError(<< <<WaitingListParentsMissing(p), ForeignKeyViolation>> >>)
       IN  /\ seq' = IF err = InvalidEnum THEN seq ELSE [seq EXCEPT !.waiting_list = @ + 1]
           /\ waiting_list' = IF err = NoErr
                              THEN [i \in DOMAIN waiting_list \cup {id} |->
                                      IF i = id THEN WaitingListInsertRow(p, id)
                                      ELSE waiting_list[i]]
                              ELSE waiting_list
           /\ last' = Call("CreateWaitingListItem", ZeroInt, {p}, err,
                           <<IF err = NoErr THEN [p EXCEPT !.id = id] ELSE p>>)
           /\ calls' = Counted("waiting_list", "creates", err)
    /\ UNCHANGED <<clinics, patients, employees, services, appointments, now, reqs, under_test, main, DB, schema>>

UpdateWaitingListItem(id, p) ==
    /\ LET err == IF WaitingListEnumInvalid(p) THEN InvalidEnum
                  ELSE IF id \in DOMAIN waiting_list
                  THEN FirstError(<< <<WaitingListParentsMissing(p), ForeignKeyViolation>> >>)
                  ELSE NoErr
       IN  /\ waiting_list' = IF id \in DOMAIN waiting_list /\ err = NoErr
                              THEN [waiting_list EXCEPT ![id] = WaitingListUpdateRow(@, p)]
                              ELSE waiting_list
           /\ last' = Call("UpdateWaitingListItem", id, {p}, err, <<>>)
    /\ UNCHANGED <<clinics, patients, employees, services, appointments,
                   seq, now, calls, reqs, under_test, main, DB, schema>>

DeleteWaitingListItem(id) ==
    /\ DeleteOpen("waiting_list")
    /\ waiting_list' = [i \in DOMAIN waiting_list \ {id} |-> waiting_list[i]]
    /\ last' = Call("DeleteWaitingListItem", id, {}, NoErr, <<>>)
    /\ calls' = CountedDelete("waiting_list", id \in DOMAIN waiting_list, NoErr)
    /\ UNCHANGED <<clinics, patients, employees, services, appointments,
                   seq, now, reqs, under_test, main, DB, schema>>

----------------------------------------------------------------------------
(* The store's clock *)

Tick ==
    /\ now < StartTime + MaxTicks * NanosPerMicro
    /\ now' = now + NanosPerMicro
    /\ UNCHANGED <<tables, seq, last, calls, reqs, under_test, main, DB, schema>>

----------------------------------------------------------------------------
(* The HTTP layer: POST /api/appointments.  gin serves every request on a  *)
(* goroutine of its own; the handler decodes the JSON body into a          *)
(* models.Appointment, calls database.CreateAppointment and answers 201 or *)
(* 500.  Nothing is locked between the requests.                            *)

\* requests served at the same time
MaxRequests == 2
Requests == 1..MaxRequests

\* the body has been decoded; the repository call has not been made yet
BindAppointment(r, p) ==
    /\ reqs[r].pc = "idle"
    /\ reqs' = [reqs EXCEPT ![r] = [pc |-> "bound", body |-> {p}, err |-> NoErr,
                                    id |-> ZeroInt, status |-> ZeroInt, during |-> {}]]
    /\ UNCHANGED <<tables, seq, now, last, calls, under_test, main, DB, schema>>

\* the repository call and the response
RespondCreateAppointment(r) ==
    /\ reqs[r].pc = "bound"
    /\ \E p \in reqs[r].body :
        /\ DatabaseCreateAppointment(p)
        /\ reqs' = [reqs EXCEPT ![r] =
                       [pc |-> "done", body |-> {p},
                        err |-> InsertAppointment(p).err,
                        id |-> IF InsertAppointment(p).err = NoErr
                               THEN InsertAppointment(p).id ELSE ZeroInt,
                        status |-> IF InsertAppointment(p).err = NoErr
                                   THEN 201 ELSE 500,
                        during |-> {o \in Requests : o /= r /\ reqs[o].pc = "bound"}]]

----------------------------------------------------------------------------
(* Inputs: the records the calls are made with *)

\* ids a caller names: every id the sequences hand out, so both rows that
\* exist and rows that do not
IdArgs == 1..MaxId

ClinicA ==
    [id |-> ZeroInt, name |-> "Test Clinic", address |-> "123 Test Street",
     phone |-> "+1234567890", email |-> "test@clinic.com", active |-> TRUE]
\* the same name at another address, switched off, carrying an id of its own
ClinicA2 ==
    [id |-> 7, name |-> "Test Clinic", address |-> "456 Updated Street",
     phone |-> "", email |-> "", active |-> FALSE]
ClinicB ==
    [id |-> ZeroInt, name |-> "Other Clinic", address |-> "", phone |-> "",
     email |-> "", active |-> FALSE]

PatientA ==
    [id |-> ZeroInt, first_name |-> "John", last_name |-> "Doe",
     email |-> "john@x", phone |-> "+1", date_of_birth |-> Ptr("1990-01-01"),
     medical_record_number |-> "MRN001", insurance_provider |-> Ptr("Test Insurance"),
     insurance_id |-> Ptr("INS123456"), emergency_contact_name |-> Ptr("Jane Doe"),
     emergency_contact_phone |-> Ptr("+0987654321"), active |-> TRUE,
     created_at |-> ZeroTime]
\* optional fields left out; carries created_at and id of its own
PatientB ==
    [id |-> 7, first_name |-> "Wait", last_name |-> "Patient",
     email |-> "wait@x", phone |-> "", date_of_birth |-> Nil,
     medical_record_number |-> "MRN888", insurance_provider |-> Nil,
     insurance_id |-> Nil, emergency_contact_name |-> Nil,
     emergency_contact_phone |-> Nil, active |-> FALSE,
     created_at |-> StartTime]

\* a patient whose JSON had no email and no medical_record_number: both
\* decode to the empty string
PatientNoKeys == [PatientB EXCEPT !.email = "", !.medical_record_number = ""]

EmployeeA(clinic) ==
    [id |-> ZeroInt, clinic_id |-> clinic, first_name |-> "Dr. Test",
     last_name |-> "Doctor", email |-> "test@doctor.com", phone |-> "+1",
     license_number |-> "LIC999", specialty |-> "General",
     timezone |-> "Asia/Colombo", active |-> TRUE, created_at |-> ZeroTime]
EmployeeB(clinic) ==
    [id |-> 7, clinic_id |-> clinic, first_name |-> "Dr. Sarah",
     last_name |-> "Williams", email |-> "sarah@clinic.com", phone |-> "",
     license_number |-> "MD123456", specialty |-> "", timezone |-> "",
     active |-> FALSE, created_at |-> StartTime]

ServiceA ==
    [id |-> ZeroInt, name |-> "General Consultation", description |-> "General",
     duration_minutes |-> 30, price |-> 100, specialty_required |-> "General",
     active |-> TRUE]
ServiceB ==
    [id |-> 7, name |-> "Test Service", description |-> "", duration_minutes |-> 45,
     price |-> 0, specialty_required |-> "", active |-> FALSE]
\* a duration the CHECK refuses
ServiceZero ==
    [id |-> ZeroInt, name |-> "Zero", description |-> "", duration_minutes |-> 0,
     price |-> 0, specialty_required |-> "", active |-> TRUE]

\* an appointment of patient 1 for service 1 at clinic 1
Appt(employee, start, end, status) ==
    [id |-> ZeroInt, patient_id |-> 1, employee_id |-> employee, service_id |-> 1,
     clinic_id |-> 1, start_datetime |-> start, end_datetime |-> end,
     status |-> status, appointment_type |-> Ptr("INITIAL_CONSULTATION"),
     notes |-> Ptr("Test appointment"), medical_notes |-> Nil,
     cancellation_reason |-> Nil, payment_status |-> "PENDING",
     payment_amount |-> Ptr(50), created_at |-> ZeroTime, updated_at |-> ZeroTime]

\* an instant: whole microseconds and the nanoseconds beyond them
Instant(micros, nanos) == micros * NanosPerMicro + nanos

WaitA ==
    [id |-> ZeroInt, patient_id |-> 1, service_id |-> 1,
     preferred_employee_id |-> Nil, requested_date |-> Ptr("2025-01-15"),
     urgency_level |-> "HIGH", notes |-> Ptr("Urgent appointment needed"),
     status |-> "ACTIVE", created_at |-> ZeroTime]
WaitB ==
    [id |-> 7, patient_id |-> 1, service_id |-> 1,
     preferred_employee_id |-> Ptr(1), requested_date |-> Nil,
     urgency_level |-> "LOW", notes |-> Nil,
     status |-> "CONTACTED", created_at |-> StartTime]

\* appointments of employee 1: 10:00-10:30, 10:15-10:45 and 10:30-11:00 of
\* one day scaled to microseconds, one with nanoseconds to spare, one that
\* ends before it starts, one with no status
ApptFirst == Appt(1, Instant(10, 0), Instant(40, 0), "SCHEDULED")
ApptSecond == Appt(1, Instant(25, 0), Instant(55, 0), "SCHEDULED")
ApptNext == Appt(1, Instant(40, 0), Instant(70, 0), "CONFIRMED")
ApptNanos == Appt(1, Instant(10, 123), Instant(40, 456), "SCHEDULED")
ApptBackwards == Appt(1, Instant(40, 0), Instant(10, 0), "SCHEDULED")
ApptNoStatus == Appt(1, Instant(10, 0), Instant(40, 0), "")

\* ApptFirst with another status and the notes an update fills in
ApptFirstAs(status) ==
    [ApptFirst EXCEPT !.id = 7, !.status = status,
                      !.medical_notes = Ptr("seen"),
                      !.cancellation_reason = Ptr("none"),
                      !.payment_status = "PAID"]

\* a waiting-list entry with no urgency_level in its JSON
WaitNoUrgency == [WaitA EXCEPT !.urgency_level = ""]

----------------------------------------------------------------------------
(* The caller.  As each test of test_db.go does, it exercises the five     *)
(* repository functions of one table, creates the rows of the tables that  *)
(* table refers to first, and deletes them afterwards.                      *)

\* the tables the rows of table t refer to, directly or through a reference
Parents(t) ==
    CASE t = "employees" -> {"clinics"}
      [] t = "appointments" -> {"clinics", "patients", "employees", "services"}
      [] t = "waiting_list" -> {"clinics", "patients", "employees", "services"}
      [] OTHER -> {}

\* the table is the one under test, or one it needs rows of
InScope(t) == t = under_test \/ t \in Parents(under_test)

ClinicInputs ==
    IF under_test = "clinics" THEN {ClinicA, ClinicA2, ClinicB} ELSE {ClinicA}
PatientInputs ==
    IF under_test = "patients"
    THEN {PatientA, PatientB, [PatientB EXCEPT !.email = PatientA.email], PatientNoKeys}
    ELSE {PatientA}
EmployeeInputs ==
    IF under_test = "employees"
    THEN {EmployeeA(1), EmployeeB(1), EmployeeB(ZeroInt)}
    ELSE {EmployeeA(1)}
ServiceInputs ==
    IF under_test = "services" THEN {ServiceA, ServiceB, ServiceZero} ELSE {ServiceA}
AppointmentInputs ==
    {ApptFirst, ApptSecond, ApptNext, ApptNanos, ApptBackwards, ApptNoStatus,
     ApptFirstAs("COMPLETED"), ApptFirstAs("CANCELLED")}
WaitingListInputs == {WaitA, WaitB, WaitNoUrgency}

Next ==
    \/ under_test = "clinics" /\ GetClinics
    \/ under_test = "clinics" /\ \E id \in IdArgs : GetClinic(id)
    \/ InScope("clinics") /\ \E p \in ClinicInputs : CreateClinic(p)
    \/ under_test = "clinics" /\ \E id \in IdArgs, p \in ClinicInputs : UpdateClinic(id, p)
    \/ InScope("clinics") /\ \E id \in IdArgs : DeleteClinic(id)
    \/ under_test = "patients" /\ GetPatients
    \/ under_test = "patients" /\ \E id \in IdArgs : GetPatient(id)
    \/ InScope("patients") /\ \E p \in PatientInputs : CreatePatient(p)
    \/ under_test = "patients" /\ \E id \in IdArgs, p \in PatientInputs : UpdatePatient(id, p)
    \/ InScope("patients") /\ \E id \in IdArgs : DeletePatient(id)
    \/ under_test = "employees" /\ GetEmployees
    \/ under_test = "employees" /\ \E id \in IdArgs : GetEmployee(id)
    \/ InScope("employees") /\ \E p \in EmployeeInputs : CreateEmployee(p)
    \/ under_test = "employees" /\ \E id \in IdArgs, p \in EmployeeInputs : UpdateEmployee(id, p)
    \/ InScope("employees") /\ \E id \in IdArgs : DeleteEmployee(id)
    \/ under_test = "services" /\ GetServices
    \/ under_test = "services" /\ \E id \in IdArgs : GetService(id)
    \/ InScope("services") /\ \E p \in ServiceInputs : CreateService(p)
    \/ under_test = "services" /\ \E id \in IdArgs, p \in ServiceInputs : UpdateService(id, p)
    \/ InScope("services") /\ \E id \in IdArgs : DeleteService(id)
    \/ under_test = "appointments" /\ GetAppointments
    \/ under_test = "appointments" /\ \E id \in IdArgs : GetAppointment(id)
    \/ under_test = "appointments" /\ \E p \in AppointmentInputs : CreateAppointment(p)
    \/ under_test = "appointments"
         /\ \E id \in IdArgs, p \in AppointmentInputs : UpdateAppointment(id, p)
    \/ under_test = "appointments" /\ \E id \in IdArgs : DeleteAppointment(id)
    \/ under_test = "waiting_list" /\ GetWaitingList
    \/ under_test = "waiting_list" /\ \E id \in IdArgs : GetWaitingListItem(id)
    \/ under_test = "waiting_list"
         /\ \E p \in WaitingListInputs : CreateWaitingListItem(p)
    \/ under_test = "waiting_list"
         /\ \E id \in IdArgs, p \in WaitingListInputs : UpdateWaitingListItem(id, p)
    \/ under_test = "waiting_list" /\ \E id \in IdArgs : DeleteWaitingListItem(id)

----------------------------------------------------------------------------
(* The statements slice of CreateTables *)

\* the DROP TABLE statements, in the order of the statements slice
DropOrder == <<"waiting_list", "appointments", "slot_holds", "time_off",
               "day_overrides", "work_templates", "employee_services",
               "services", "employees", "patients", "clinics">>

\* the statements after the DROP TABLE statements: the enum types dropped
\* and created, the tables created in this order, the indexes with the
\* table each is on
EnumTypes == <<"appointment_status", "appointment_type", "payment_status",
               "urgency_level", "waiting_list_status">>
CreateOrder == <<"clinics", "patients", "employees", "services",
                 "employee_services", "work_templates", "day_overrides",
                 "time_off", "slot_holds", "appointments", "waiting_list">>
Indexes == <<[name |-> "idx_appointments_patient_id", on |-> "appointments"],
             [name |-> "idx_appointments_employee_id", on |-> "appointments"],
             [name |-> "idx_appointments_datetime", on |-> "appointments"],
             [name |-> "idx_appointments_status", on |-> "appointments"],
             [name |-> "idx_slot_holds_datetime", on |-> "slot_holds"],
             [name |-> "idx_time_off_datetime", on |-> "time_off"]>>

\* the tables and types the CREATE TABLE of table t names
Needs(t) ==
    CASE t = "employees" -> {"clinics"}
      [] t = "employee_services" -> {"employees", "services"}
      [] t \in {"work_templates", "day_overrides", "time_off"} -> {"employees"}
      [] t = "slot_holds" -> {"employees", "services", "patients"}
      [] t = "appointments" -> {"patients", "employees", "services", "clinics",
                                "appointment_status", "appointment_type", "payment_status"}
      [] t = "waiting_list" -> {"patients", "services", "employees",
                                "urgency_level", "waiting_list_status"}
      [] OTHER -> {}

Statement(kind, name, needs) == [kind |-> kind, name |-> name, needs |-> needs]

\* a statements slice that creates the enum types without dropping them first
StatementsNoDropType ==
    [i \in DOMAIN DropOrder |-> Statement("DROP TABLE IF EXISTS", DropOrder[i], {})] \o
    [i \in DOMAIN EnumTypes |-> Statement("CREATE TYPE", EnumTypes[i], {})] \o
    [i \in DOMAIN CreateOrder |->
        Statement("CREATE TABLE IF NOT EXISTS", CreateOrder[i], Needs(CreateOrder[i]))] \o
    [i \in DOMAIN Indexes |->
        Statement("CREATE INDEX IF NOT EXISTS", Indexes[i].name, {Indexes[i].on})]

\* the statements slice of CreateTables
Statements ==
    [i \in DOMAIN DropOrder |-> Statement("DROP TABLE IF EXISTS", DropOrder[i], {})] \o
    [i \in DOMAIN EnumTypes |-> Statement("DROP TYPE IF EXISTS", EnumTypes[i], {})] \o
    [i \in DOMAIN EnumTypes |-> Statement("CREATE TYPE", EnumTypes[i], {})] \o
    [i \in DOMAIN CreateOrder |->
        Statement("CREATE TABLE IF NOT EXISTS", CreateOrder[i], Needs(CreateOrder[i]))] \o
    [i \in DOMAIN Indexes |->
        Statement("CREATE INDEX IF NOT EXISTS", Indexes[i].name, {Indexes[i].on})]

----------------------------------------------------------------------------
(* The state after InitDB and CreateTables: every table dropped and created
   again, so empty, every sequence at its start, and the process past its
   bootstrap *)

Init ==
    /\ clinics = <<>>
    /\ patients = <<>>
    /\ employees = <<>>
    /\ services = <<>>
    /\ appointments = <<>>
    /\ waiting_list = <<>>
    /\ seq = [t \in TableNames |-> 1]
    /\ now = StartTime
    /\ last = Call("CreateTables", ZeroInt, {}, NoErr, <<>>)
    /\ calls = [creates |-> 0, deletes |-> 0, removed |-> 0]
    /\ reqs = [r \in Requests |-> [pc |-> "idle", body |-> {}, err |-> NoErr,
                                   id |-> ZeroInt, status |-> ZeroInt, during |-> {}]]
    /\ under_test \in TableNames
    /\ main = "serving"
    /\ DB = "open"
    /\ schema = {Statements[i].name : i \in DOMAIN Statements}


Spec == Init /\ [][Next]_vars

\* the server: rows of the four referenced tables exist, and requests to
\* POST /api/appointments are served concurrently
AppointmentBodies == {ApptFirst, ApptSecond, ApptNext}

NextHttp ==
    \/ \E p \in ClinicInputs : CreateClinic(p)
    \/ \E p \in PatientInputs : CreatePatient(p)
    \/ \E p \in EmployeeInputs : CreateEmployee(p)
    \/ \E p \in ServiceInputs : CreateService(p)
    \/ \E r \in Requests, p \in AppointmentBodies : BindAppointment(r, p)
    \/ \E r \in Requests : RespondCreateAppointment(r)

InitHttp == Init /\ under_test = "appointments"

SpecHttp == InitHttp /\ [][NextHttp]_vars

----------------------------------------------------------------------------
(* Claims about appointments: overlap, lifecycle, interval *)

\* an appointment that holds its slot
ActiveStatus(status) == status \notin {"CANCELLED", "NO_SHOW"}

\* [s1, e1) and [s2, e2) intersect
Intersect(s1, e1, s2, e2) == s1 < e2 /\ s2 < e1

\* the ids the last call added to its table: the one a successful Create got
NewIds == IF last.err = NoErr /\ Len(last.out) = 1 THEN {last.out[1].id} ELSE {}

\* C1: no two stored appointments of one employee, both with a status other
\* than CANCELLED and NO_SHOW, have intersecting [start, end) intervals
C1_NoDoubleBooking ==
    \A i, j \in DOMAIN appointments :
        ( /\ i /= j
          /\ appointments[i].employee_id = appointments[j].employee_id
          /\ ActiveStatus(appointments[i].status)
          /\ ActiveStatus(appointments[j].status) )
        => ~Intersect(appointments[i].start_datetime, appointments[i].end_datetime,
                      appointments[j].start_datetime, appointments[j].end_datetime)

\* C2: CreateAppointment with an active status, for an employee who has a
\* stored active appointment whose interval intersects the requested one,
\* fails with Conflict and inserts no row
C2_OverlappingCreateIsConflict ==
    \A p \in last.arg :
        ( /\ last.op = "CreateAppointment"
          /\ p.status \in AppointmentStatus /\ ActiveStatus(p.status)
          /\ \E j \in DOMAIN appointments \ NewIds :
                /\ appointments[j].employee_id = p.employee_id
                /\ ActiveStatus(appointments[j].status)
                /\ Intersect(appointments[j].start_datetime, appointments[j].end_datetime,
                             p.start_datetime, p.end_datetime) )
        => /\ last.err /= NoErr
           /\ ErrorKind(last.err) = "Conflict"
           /\ NewIds = {}

\* C3: of two POST /api/appointments requests served at the same time for
\* one employee, with intersecting intervals and active statuses, at most
\* one succeeds, the other is answered Conflict, and never are both rows
\* stored
C3_ConcurrentCreatesConflict ==
    \A r1, r2 \in Requests :
        \A p1 \in reqs[r1].body, p2 \in reqs[r2].body :
            ( /\ r1 /= r2
              /\ reqs[r1].pc = "done" /\ reqs[r2].pc = "done"
              /\ r2 \in reqs[r1].during
              /\ p1.employee_id = p2.employee_id
              /\ ActiveStatus(p1.status) /\ ActiveStatus(p2.status)
              /\ Intersect(p1.start_datetime, p1.end_datetime,
                           p2.start_datetime, p2.end_datetime) )
            => /\ ~(reqs[r1].err = NoErr /\ reqs[r2].err = NoErr)
               /\ ~({reqs[r1].id, reqs[r2].id} \subseteq DOMAIN appointments)
               /\ reqs[r1].err = NoErr => ErrorKind(reqs[r2].err) = "Conflict"

\* the status changes of the forward lifecycle
AllowedTransitions ==
    {<<"SCHEDULED", "CONFIRMED">>, <<"CONFIRMED", "IN_PROGRESS">>,
     <<"IN_PROGRESS", "COMPLETED">>, <<"SCHEDULED", "CANCELLED">>,
     <<"SCHEDULED", "NO_SHOW">>, <<"CONFIRMED", "CANCELLED">>,
     <<"CONFIRMED", "NO_SHOW">>}

\* C4: every status change UpdateAppointment makes to a stored appointment
\* is one of the lifecycle's; any other is refused and the status stays
C4_StatusLifecycle ==
    [][\A id \in DOMAIN appointments \cap DOMAIN appointments' :
          appointments'[id].status /= appointments[id].status
          => <<appointments[id].status, appointments'[id].status>> \in AllowedTransitions]_vars

\* C5: every stored appointment ends after it starts
C5_EndAfterStart ==
    \A id \in DOMAIN appointments :
        appointments[id].end_datetime > appointments[id].start_datetime

----------------------------------------------------------------------------
(* Claims about the six repositories: round trips, NotFound, listing *)

\* the table a repository function works on
TableOfOp(op) ==
    CASE op \in {"GetClinics", "GetClinic", "CreateClinic", "UpdateClinic",
                 "DeleteClinic"} -> "clinics"
      [] op \in {"GetPatients", "GetPatient", "CreatePatient", "UpdatePatient",
                 "DeletePatient"} -> "patients"
      [] op \in {"GetEmployees", "GetEmployee", "CreateEmployee", "UpdateEmployee",
                 "DeleteEmployee"} -> "employees"
      [] op \in {"GetServices", "GetService", "CreateService", "UpdateService",
                 "DeleteService"} -> "services"
      [] op \in {"GetAppointments", "GetAppointment", "CreateAppointment",
                 "UpdateAppointment", "DeleteAppointment"} -> "appointments"
      [] op \in {"GetWaitingList", "GetWaitingListItem", "CreateWaitingListItem",
                 "UpdateWaitingListItem", "DeleteWaitingListItem"} -> "waiting_list"
      [] OTHER -> ""

\* the rows of table t
Rows(t) ==
    CASE t = "clinics" -> clinics
      [] t = "patients" -> patients
      [] t = "employees" -> employees
      [] t = "services" -> services
      [] t = "appointments" -> appointments
      [] t = "waiting_list" -> waiting_list
      [] OTHER -> <<>>

\* what get(id) of table t returns in the current state
Get(t, id) ==
    CASE t = "clinics" -> QueryRowClinic(id)
      [] t = "patients" -> QueryRowPatient(id)
      [] t = "employees" -> QueryRowEmployee(id)
      [] t = "services" -> QueryRowService(id)
      [] t = "appointments" -> QueryRowAppointment(id)
      [] t = "waiting_list" -> QueryRowWaitingList(id)

\* what list() of table t may return in the current state
List(t) ==
    CASE t = "clinics" -> QueryClinics
      [] t = "patients" -> QueryPatients
      [] t = "employees" -> QueryEmployees
      [] t = "services" -> QueryServices
      [] t = "appointments" -> QueryAppointments
      [] t = "waiting_list" -> QueryWaitingList

CreateOps == {"CreateClinic", "CreatePatient", "CreateEmployee", "CreateService"}
UpdateOps == {"UpdateClinic", "UpdatePatient", "UpdateEmployee", "UpdateService",
              "UpdateAppointment", "UpdateWaitingListItem"}
GetOps == {"GetClinic", "GetPatient", "GetEmployee", "GetService", "GetAppointment",
           "GetWaitingListItem"}
ListOps == {"GetClinics", "GetPatients", "GetEmployees", "GetServices",
            "GetAppointments", "GetWaitingList"}
DeleteOps == {"DeleteClinic", "DeletePatient", "DeleteEmployee", "DeleteService",
              "DeleteAppointment", "DeleteWaitingListItem"}

\* the columns the store fills in itself
StoreAssigned == {"id", "created_at", "updated_at"}
\* the TIMESTAMPTZ columns a caller gives values for
InstantColumns == {"start_datetime", "end_datetime"}

\* a successful create of a Clinic, Patient, Employee or Service has just returned
Created == last.op \in CreateOps /\ last.err = NoErr
\* a successful update of an existing row has just returned
Updated ==
    last.op \in UpdateOps /\ last.err = NoErr /\ last.id \in DOMAIN Rows(TableOfOp(last.op))

\* C6 as stated: after a successful create(p) of a Clinic, Patient, Employee
\* or Service, get(id) with the assigned id returns a record whose every
\* field other than id equals p's
C6_CreateThenGetAllFields ==
    \A p \in last.arg :
        Created =>
            LET got == Get(TableOfOp(last.op), last.out[1].id)
            IN  /\ got.err = NoErr
                /\ \A f \in DOMAIN p \ {"id"} : got.out[1][f] = p[f]

\* C6 amended: after a successful create(p) of a Clinic, Patient, Employee
\* or Service, get(id) with the assigned id returns a record with that id,
\* whose every field other than id and created_at equals p's, and whose
\* created_at (Patient, Employee) is the store's time of the insert
C6_CreateThenGet ==
    \A p \in last.arg :
        Created =>
            LET got == Get(TableOfOp(last.op), last.out[1].id)
            IN  /\ got.err = NoErr
                /\ got.out[1].id = last.out[1].id
                /\ got.out[1].id /= ZeroInt
                /\ \A f \in DOMAIN p \ StoreAssigned : got.out[1][f] = p[f]
                /\ "created_at" \in DOMAIN p => got.out[1].created_at = now

\* a Patient was created whose created_at is not the one the store gave the
\* row that get returns
C6_Witness ==
    /\ last.op = "CreatePatient" /\ last.err = NoErr
    /\ QueryRowPatient(last.out[1].id).err = NoErr
    /\ \E p \in last.arg :
          p.created_at /= QueryRowPatient(last.out[1].id).out[1].created_at

\* C7 as stated: after a successful update(id, e) of an existing row, of any
\* of the six entities, get(id) returns a record whose every replaceable
\* column equals the value given in e
C7_UpdateThenGetExact ==
    \A e \in last.arg :
        Updated =>
            LET got == Get(TableOfOp(last.op), last.id)
            IN  /\ got.err = NoErr
                /\ \A f \in DOMAIN e \ StoreAssigned : got.out[1][f] = e[f]

\* C7 amended: after a successful update(id, e) of an existing row, of any
\* of the six entities, get(id) returns a record with that id whose every
\* replaceable column equals the value given in e, start_datetime and
\* end_datetime to the microsecond (the instant cut to whole microseconds)
C7_UpdateThenGet ==
    \A e \in last.arg :
        Updated =>
            LET got == Get(TableOfOp(last.op), last.id)
            IN  /\ got.err = NoErr
                /\ got.out[1].id = last.id
                /\ \A f \in DOMAIN e \ (StoreAssigned \cup InstantColumns) :
                       got.out[1][f] = e[f]
                /\ \A f \in DOMAIN e \cap InstantColumns :
                       got.out[1][f] = Timestamptz(e[f])

\* an existing appointment was updated with instants that carry nanoseconds
C7_Witness ==
    /\ last.op = "UpdateAppointment" /\ last.err = NoErr
    /\ last.id \in DOMAIN appointments
    /\ \E e \in last.arg : Timestamptz(e.start_datetime) /= e.start_datetime

\* C8: get(id) returns an error exactly when the table has no row with that
\* id, the error is pgx.ErrNoRows (NotFound), and a row that exists is
\* returned without error; so get(id) after a successful delete(id) is
\* NotFound.  For all six entities, with the store answering.
C8_GetNotFoundIffAbsent ==
    /\ \A t \in TableNames, id \in IdArgs :
          /\ Get(t, id).err /= NoErr <=> id \notin DOMAIN Rows(t)
          /\ Get(t, id).err \in {NoErr, ErrNoRows}
          /\ Get(t, id).err = NoErr => Get(t, id).out = <<Rows(t)[id]>>
    /\ last.op \in GetOps =>
          /\ last.err = Get(TableOfOp(last.op), last.id).err
          /\ last.out = Get(TableOfOp(last.op), last.id).out
          /\ last.err /= NoErr <=> last.id \notin DOMAIN Rows(TableOfOp(last.op))
    /\ (last.op \in DeleteOps /\ last.err = NoErr) =>
          Get(TableOfOp(last.op), last.id).err = ErrNoRows

\* a get has just failed with ErrNoRows for an id that was assigned to a
\* row, after a delete removed a row
C8_Witness ==
    /\ last.op \in GetOps /\ last.err = ErrNoRows
    /\ calls.removed >= 1
    /\ last.id < seq[under_test]

\* C9 as stated: after N successful creates and M successful deletes on one
\* table, starting empty, list() returns N - M rows
C9_ListCountsCalls ==
    (last.op \in ListOps /\ TableOfOp(last.op) = under_test) =>
        Len(last.out) = calls.creates - calls.deletes

\* C9 amended: after N successful creates on one table, starting empty, and
\* deletes of which M removed a row (a delete of an id that has no row also
\* returns nil), list() returns exactly the N - M rows of the table, each
\* once, whatever their active flag; a delete leaves no row behind
C9_ListAllRows ==
    /\ (last.op \in ListOps /\ TableOfOp(last.op) = under_test) =>
          /\ Len(last.out) = calls.creates - calls.removed
          /\ {last.out[i] : i \in 1..Len(last.out)}
                = {Rows(under_test)[id] : id \in DOMAIN Rows(under_test)}
          /\ \A i, j \in 1..Len(last.out) : last.out[i] = last.out[j] => i = j
          /\ last.out \in List(under_test)
    /\ (last.op \in DeleteOps /\ last.err = NoErr) =>
          last.id \notin DOMAIN Rows(TableOfOp(last.op))

\* clinics were listed after a delete that removed a row and one that found
\* none, and a row with active = FALSE was returned
C9_Witness ==
    /\ last.op = "GetClinics"
    /\ calls.removed >= 1 /\ calls.deletes > calls.removed
    /\ \E i \in 1..Len(last.out) : ~last.out[i].active

\* C10: DeleteClinic(id) of a clinic that an employee row refers to returns
\* a foreign-key violation (ConstraintViolation) and leaves the clinic row
\* and every employee row as they were
C10_DeleteReferencedClinic ==
    [][(/\ last'.op = "DeleteClinic"
        /\ \E e \in DOMAIN employees : employees[e].clinic_id = last'.id)
       => /\ last'.err = ForeignKeyViolation
          /\ last'.id \in DOMAIN clinics'
          /\ clinics' = clinics
          /\ employees' = employees]_vars

\* DeleteClinic of a clinic with an employee has just been refused
C10_Witness ==
    /\ last.op = "DeleteClinic" /\ last.err = ForeignKeyViolation
    /\ last.id \in DOMAIN clinics
    /\ \E e \in DOMAIN employees : employees[e].clinic_id = last.id

----------------------------------------------------------------------------
(* Claims about the store's constraints: references, missing rows, keys *)

\* every reference of a stored row names a stored row
ReferencesResolve ==
    /\ \A e \in DOMAIN employees : employees[e].clinic_id \in DOMAIN clinics
    /\ \A a \in DOMAIN appointments :
          /\ appointments[a].patient_id \in DOMAIN patients
          /\ appointments[a].employee_id \in DOMAIN employees
          /\ appointments[a].service_id \in DOMAIN services
          /\ appointments[a].clinic_id \in DOMAIN clinics
    /\ \A w \in DOMAIN waiting_list :
          /\ waiting_list[w].patient_id \in DOMAIN patients
          /\ waiting_list[w].service_id \in DOMAIN services
          /\ waiting_list[w].preferred_employee_id \subseteq DOMAIN employees

\* record e, given to function op, names a parent row that is not stored
NamesAbsentParent(op, e) ==
    CASE op \in {"CreateEmployee", "UpdateEmployee"} -> EmployeeParentsMissing(e)
      [] op \in {"CreateAppointment", "UpdateAppointment"} -> AppointmentParentsMissing(e)
      [] op \in {"CreateWaitingListItem", "UpdateWaitingListItem"} ->
             WaitingListParentsMissing(e)
      [] OTHER -> FALSE

\* the row that Delete function op is asked to remove is stored and referred to
DeletesReferenced(op, id) ==
    CASE op = "DeletePatient" -> id \in DOMAIN patients /\ PatientReferenced(id)
      [] op = "DeleteEmployee" -> id \in DOMAIN employees /\ EmployeeReferenced(id)
      [] op = "DeleteService" -> id \in DOMAIN services /\ ServiceReferenced(id)
      [] OTHER -> FALSE

\* the step is a call that the claim says is rejected
BreaksReference ==
    \/ \E e \in last'.arg : NamesAbsentParent(last'.op, e)
    \/ DeletesReferenced(last'.op, last'.id)

\* the call of the step failed and no table changed
Rejected == last'.err /= NoErr /\ tables' = tables

\* C11: in every reachable state every reference names an existing row
\* (Employee.clinic_id; Appointment patient_id, employee_id, service_id,
\* clinic_id; WaitingList patient_id, service_id and preferred_employee_id
\* when present), and a create or update naming an absent parent, and a
\* delete of a referenced Patient, Employee or Service, are rejected
C11_ReferentialIntegrity ==
    /\ []ReferencesResolve
    /\ [][BreaksReference => Rejected]_vars

\* C12: update(id, e) with an id that has no row fails with NotFound and
\* leaves every table unchanged, for each of the six entities
C12_UpdateMissingIsNotFound ==
    [][(/\ last'.op \in UpdateOps
        /\ last'.id \notin DOMAIN Rows(TableOfOp(last'.op)))
       => /\ last'.err /= NoErr
          /\ ErrorKind(last'.err) = "NotFound"
          /\ tables' = tables]_vars

\* no two rows of a table share the value of a UNIQUE column
KeysUnique ==
    /\ \A i, j \in DOMAIN clinics : clinics[i].name = clinics[j].name => i = j
    /\ \A i, j \in DOMAIN services : services[i].name = services[j].name => i = j
    /\ \A i, j \in DOMAIN patients :
          ( \/ patients[i].email = patients[j].email
            \/ patients[i].medical_record_number = patients[j].medical_record_number )
          => i = j
    /\ \A i, j \in DOMAIN employees :
          ( \/ employees[i].email = employees[j].email
            \/ employees[i].license_number = employees[j].license_number )
          => i = j

\* function op, called with id and record e, would store a value of a
\* UNIQUE column that another row holds
WouldDuplicate(op, id, e) ==
    CASE op = "CreateClinic" -> ClinicNameTaken(e.name, ZeroInt)
      [] op = "UpdateClinic" -> id \in DOMAIN clinics /\ ClinicNameTaken(e.name, id)
      [] op = "CreateService" -> ServiceNameTaken(e.name, ZeroInt)
      [] op = "UpdateService" -> id \in DOMAIN services /\ ServiceNameTaken(e.name, id)
      [] op = "CreatePatient" -> PatientKeyTaken(e, ZeroInt)
      [] op = "UpdatePatient" -> id \in DOMAIN patients /\ PatientKeyTaken(e, id)
      [] op = "CreateEmployee" -> EmployeeKeyTaken(e, ZeroInt)
      [] op = "UpdateEmployee" -> id \in DOMAIN employees /\ EmployeeKeyTaken(e, id)
      [] OTHER -> FALSE

\* SQLSTATE class 23, integrity constraint violation
ConstraintErrors ==
    {UniqueViolation, ForeignKeyViolation, NotNullViolation, CheckViolation}

\* C13: in every reachable state no two Clinics share a name, no two
\* Services a name, no two Patients an email or a medical_record_number, no
\* two Employees an email or a license_number; a create, or an update of a
\* stored row, that would duplicate such a value (the empty string
\* included) fails with a constraint violation, which is the unique
\* violation unless the row also breaks a CHECK, and changes no table
C13_Uniqueness ==
    /\ []KeysUnique
    /\ [][\A e \in last'.arg :
            WouldDuplicate(last'.op, last'.id, e)
            => /\ last'.err \in ConstraintErrors
               /\ last'.err = UniqueViolation
                    \/ (last'.op \in {"CreateService", "UpdateService"} /\ ServiceCheckFails(e))
               /\ tables' = tables]_vars

\* a second patient with an empty email and medical_record_number has just
\* been refused for the first one's sake
C13_Witness ==
    /\ last.op = "CreatePatient" /\ last.err = UniqueViolation
    /\ \E e \in last.arg : e.email = "" /\ e.medical_record_number = ""
    /\ \E i \in DOMAIN patients : patients[i].email = ""
    /\ KeysUnique

----------------------------------------------------------------------------
(* The HTTP layer, every route.  Each route of main.go names the handler   *)
(* of one repository function.  A handler decodes the JSON body where the  *)
(* verb has one, makes its repository call and answers with a status that  *)
(* depends on the verb and on the call's error.  Requests are followed one *)
(* at a time here: the response to a request depends on no other request.  *)

\* the handlers registered with r.POST
PostRoutes == {"CreateClinic", "CreatePatient", "CreateEmployee", "CreateService",
               "CreateAppointment", "CreateWaitingListItem"}

\* the routes: one per repository function
Routes == ListOps \cup GetOps \cup UpdateOps \cup DeleteOps \cup PostRoutes

\* a router that registers the create handlers with PUT
VerbPutForPost(op) ==
    CASE op \in ListOps \cup GetOps -> "GET"
      [] op \in DeleteOps -> "DELETE"
      [] OTHER -> "PUT"

\* the verb a route is registered under
Verb(op) ==
    CASE op \in ListOps \cup GetOps -> "GET"
      [] op \in UpdateOps -> "PUT"
      [] op \in DeleteOps -> "DELETE"
      [] OTHER -> "POST"

\* the status a handler answers with after its repository call
HandlerStatus(op, err) ==
    IF err = NoErr
    THEN CASE Verb(op) = "POST" -> 201
           [] Verb(op) = "DELETE" -> 204
           [] OTHER -> 200
    ELSE IF err = ErrNoRows THEN 404 ELSE 500

\* a request has been routed to its handler and is not answered yet
InHandler == \E r \in Requests : reqs[r].pc = "routed"

\* gin hands request r to the handler of route op; decodes says whether the
\* body, if the verb has one, is JSON of the entity
ServeHTTP(r, op, decodes) ==
    /\ main = "serving"
    /\ ~InHandler
    /\ reqs[r].pc = "idle"
    /\ TableOfOp(op) = under_test
         \/ (InScope(TableOfOp(op)) /\ op \in DeleteOps \cup PostRoutes)
    /\ decodes \/ Verb(op) \in {"POST", "PUT"}
    /\ reqs' = [reqs EXCEPT ![r] = [pc |-> "routed", route |-> op, decodes |-> decodes,
                                    called |-> FALSE, body |-> {}, err |-> NoErr,
                                    id |-> ZeroInt, status |-> ZeroInt, during |-> {}]]
    /\ last' = Call("ServeHTTP", r, {}, NoErr, <<>>)
    /\ UNCHANGED <<tables, seq, now, calls, under_test, main, DB, schema>>

\* the body does not decode: 400, and no repository call
AbortBadRequest(r) ==
    /\ reqs[r].pc = "routed"
    /\ ~reqs[r].decodes
    /\ reqs' = [reqs EXCEPT ![r].pc = "done", ![r].status = 400]
    /\ UNCHANGED <<tables, seq, now, last, calls, under_test, main, DB, schema>>

\* the handler has made its repository call: the status and the body follow
\* from the call's error
Respond(r) ==
    /\ reqs[r].pc = "routed"
    /\ reqs[r].decodes
    /\ last.op = reqs[r].route
    /\ reqs' = [reqs EXCEPT ![r].pc = "done",
                            ![r].called = TRUE,
                            ![r].err = last.err,
                            ![r].status = HandlerStatus(last.op, last.err),
                            ![r].body = IF HandlerStatus(last.op, last.err) = 204
                                        THEN {} ELSE {last.err}]
    /\ UNCHANGED <<tables, seq, now, last, calls, under_test, main, DB, schema>>

\* the repository call of the handler that holds a request
HandlerCall ==
    /\ \E r \in Requests :
          /\ reqs[r].pc = "routed"
          /\ reqs[r].decodes
          /\ last.op = "ServeHTTP"
          /\ Next
          /\ last'.op = reqs[r].route

NextApi ==
    \/ \E r \in Requests, op \in Routes, decodes \in BOOLEAN : ServeHTTP(r, op, decodes)
    \/ \E r \in Requests : AbortBadRequest(r)
    \/ HandlerCall
    \/ \E r \in Requests : Respond(r)

SpecApi == Init /\ [][NextApi]_vars

----------------------------------------------------------------------------
(* The process: main calls InitDB, then CreateTables, then serves with      *)
(* r.Run.  log.Fatal and log.Fatalf end the process.  The store is a        *)
(* server of its own: its rows outlive the process.                         *)

\* what DATABASE_URL can hold: nothing, a string pgxpool.ParseConfig
\* refuses, a connection string
DatabaseUrls == {"", "not a connection string", "postgres://store/bookings"}

ErrNoDatabaseUrl == "DATABASE_URL environment variable is not set"
ErrParseConfig == "cannot parse connection string"
ErrConnect == "failed to connect"
ErrListen == "listen tcp :8080: bind: address already in use"

\* pgxpool.New parses the connection string and opens no connection
PoolNew(connString) ==
    IF connString = "not a connection string" THEN ErrParseConfig ELSE NoErr

\* an InitDB that hands whatever DATABASE_URL holds to pgxpool.New
InitDBNoUrlCheck(connString) ==
    /\ main = "InitDB"
    /\ last' = Call("InitDB", ZeroInt, {connString}, PoolNew(connString), <<>>)
    /\ main' = IF PoolNew(connString) = NoErr THEN "CreateTables" ELSE "exit"
    /\ DB' = IF PoolNew(connString) = NoErr THEN "open" ELSE "nil"
    /\ UNCHANGED <<tables, seq, now, calls, reqs, under_test, schema>>

InitDB(connString) ==
    /\ main = "InitDB"
    /\ LET err == IF connString = "" THEN ErrNoDatabaseUrl ELSE PoolNew(connString)
       IN  /\ last' = Call("InitDB", ZeroInt, {connString}, err, <<>>)
           /\ main' = IF err = NoErr THEN "CreateTables" ELSE "exit"
           /\ DB' = IF err = NoErr THEN "open" ELSE "nil"
    /\ UNCHANGED <<tables, seq, now, calls, reqs, under_test, schema>>

DuplicateObject == "42710"               \* type already exists
UndefinedObject == "42P01"               \* relation or type does not exist

\* DB.Exec of one statement on a store in which the objects of sch exist:
\* IF EXISTS and IF NOT EXISTS make a statement a no-op, CREATE TYPE has
\* neither; an index goes with its table
Exec(st, sch) ==
    CASE st.kind = "DROP TABLE IF EXISTS" ->
            [err |-> NoErr,
             schema |-> sch \ ({st.name} \cup
                               {Indexes[i].name : i \in {j \in DOMAIN Indexes : Indexes[j].on = st.name}})]
      [] st.kind = "DROP TYPE IF EXISTS" ->
            [err |-> NoErr, schema |-> sch \ {st.name}]
      [] st.kind = "CREATE TYPE" ->
            IF st.name \in sch THEN [err |-> DuplicateObject, schema |-> sch]
            ELSE [err |-> NoErr, schema |-> sch \cup {st.name}]
      [] OTHER ->
            IF st.name \in sch THEN [err |-> NoErr, schema |-> sch]
            ELSE IF ~(st.needs \subseteq sch) THEN [err |-> UndefinedObject, schema |-> sch]
            ELSE [err |-> NoErr, schema |-> sch \cup {st.name}]

\* the loop of CreateTables from statement i on: the first statement that
\* fails, by itself or because the store is lost at statement failAt, ends
\* it; `at` is the index of that statement, 0 when none failed
RECURSIVE ExecFrom(_, _, _)
ExecFrom(i, sch, failAt) ==
    IF i > Len(Statements) THEN [err |-> NoErr, schema |-> sch, at |-> 0]
    ELSE IF i = failAt THEN [err |-> ErrConnect, schema |-> sch, at |-> i]
    ELSE IF Exec(Statements[i], sch).err /= NoErr
         THEN [err |-> Exec(Statements[i], sch).err, schema |-> sch, at |-> i]
         ELSE ExecFrom(i + 1, Exec(Statements[i], sch).schema, failAt)

\* a statements slice without DROP TABLE IF EXISTS clinics CASCADE
DroppedButClinics(at) ==
    IF at = 0 THEN {DropOrder[i] : i \in DOMAIN DropOrder} \ {"clinics"}
    ELSE {DropOrder[i] : i \in {j \in DOMAIN DropOrder : j < at}}

\* the tables whose rows are gone when statement `at` was the first to
\* fail; 0: none failed
Dropped(at) ==
    IF at = 0 THEN {DropOrder[i] : i \in DOMAIN DropOrder}
    ELSE {DropOrder[i] : i \in {j \in DOMAIN DropOrder : j < at}}

\* the tables that hold rows
Holding == {t \in TableNames :
              CASE t = "clinics" -> clinics /= <<>>
                [] t = "patients" -> patients /= <<>>
                [] t = "employees" -> employees /= <<>>
                [] t = "services" -> services /= <<>>
                [] t = "appointments" -> appointments /= <<>>
                [] OTHER -> waiting_list /= <<>>}

\* every statement is executed on its own, so the statements before a
\* failing one stay done; last.arg keeps which tables held rows and which
\* objects existed at the call
CreateTables(failAt) ==
    /\ main = "CreateTables"
    /\ LET run == ExecFrom(1, schema, failAt)
           gone == Dropped(run.at)
       IN  /\ clinics' = IF "clinics" \in gone THEN <<>> ELSE clinics
           /\ patients' = IF "patients" \in gone THEN <<>> ELSE patients
           /\ employees' = IF "employees" \in gone THEN <<>> ELSE employees
           /\ services' = IF "services" \in gone THEN <<>> ELSE services
           /\ appointments' = IF "appointments" \in gone THEN <<>> ELSE appointments
           /\ waiting_list' = IF "waiting_list" \in gone THEN <<>> ELSE waiting_list
           /\ seq' = [t \in TableNames |-> IF t \in gone THEN 1 ELSE seq[t]]
           /\ schema' = run.schema
           /\ last' = Call("CreateTables", run.at, {[held |-> Holding, existed |-> schema]},
                           run.err, <<>>)
           /\ main' = IF run.err = NoErr THEN "Run" ELSE "exit"
    /\ UNCHANGED <<now, calls, reqs, under_test, DB>>

\* r.Run(":8080"): listens and serves, or returns an error to log.Fatal
Run(err) ==
    /\ main = "Run"
    /\ last' = Call("Run", ZeroInt, {}, err, <<>>)
    /\ main' = IF err = NoErr THEN "serving" ELSE "exit"
    /\ UNCHANGED <<tables, seq, now, calls, reqs, under_test, DB, schema>>

\* CloseDB, which main defers: it would run when main returns.  main has no
\* return: a failed CreateTables ends in log.Fatalf and the last statement
\* is log.Fatal(r.Run(":8080")); both end the process with os.Exit, which
\* runs no deferred call.  No position of main enables this action, so it is
\* no disjunct of NextMain.
CloseDB ==
    /\ main = "return"
    /\ DB' = IF DB = "nil" THEN "nil" ELSE "closed"
    /\ main' = "exit"
    /\ UNCHANGED <<tables, seq, now, last, calls, reqs, under_test, schema>>

\* a repository function that ends the process when its query fails
StoreUnreachableFatal(r) ==
    /\ main = "serving"
    /\ reqs[r].pc = "routed"
    /\ reqs[r].decodes
    /\ last.op = "ServeHTTP"
    /\ last' = Call(reqs[r].route, ZeroInt, {}, ErrConnect, <<>>)
    /\ main' = "exit"
    /\ UNCHANGED <<tables, seq, now, calls, reqs, under_test, DB, schema>>

\* a repository function whose query fails because the store cannot be
\* reached returns the error to the handler that called it
StoreUnreachable(r) ==
    /\ main = "serving"
    /\ reqs[r].pc = "routed"
    /\ reqs[r].decodes
    /\ last.op = "ServeHTTP"
    /\ last' = Call(reqs[r].route, ZeroInt, {}, ErrConnect, <<>>)
    /\ UNCHANGED <<tables, seq, now, calls, reqs, under_test, main, DB, schema>>

\* the process is started again, against the same store
Restart ==
    /\ main \in {"serving", "exit"}
    /\ main' = "InitDB"
    /\ last' = Call("main", ZeroInt, {}, NoErr, <<>>)
    /\ calls' = [creates |-> 0, deletes |-> 0, removed |-> 0]
    /\ reqs' = [r \in Requests |-> [pc |-> "idle", body |-> {}, err |-> NoErr,
                                    id |-> ZeroInt, status |-> ZeroInt, during |-> {}]]
    /\ DB' = "nil"
    /\ UNCHANGED <<tables, seq, now, under_test, schema>>

\* the process is followed through its start and through requests to the
\* clinics routes or to the employees routes
NextMain ==
    \/ \E connString \in DatabaseUrls : InitDB(connString)
    \/ \E failAt \in 0..Len(Statements) : CreateTables(failAt)
    \/ \E err \in {NoErr, ErrListen} : Run(err)
    \/ \E r \in Requests : StoreUnreachable(r)
    \/ Restart
    \/ NextApi

InitMain ==
    /\ clinics = <<>>
    /\ patients = <<>>
    /\ employees = <<>>
    /\ services = <<>>
    /\ appointments = <<>>
    /\ waiting_list = <<>>
    /\ seq = [t \in TableNames |-> 1]
    /\ now = StartTime
    /\ last = Call("main", ZeroInt, {}, NoErr, <<>>)
    /\ calls = [creates |-> 0, deletes |-> 0, removed |-> 0]
    /\ reqs = [r \in Requests |-> [pc |-> "idle", body |-> {}, err |-> NoErr,
                                   id |-> ZeroInt, status |-> ZeroInt, during |-> {}]]
    /\ under_test \in {"clinics", "employees"}
    /\ main = "InitDB"
    /\ DB = "nil"
    /\ schema = {}

SpecMain == InitMain /\ [][NextMain]_vars

----------------------------------------------------------------------------
(* Claims about the HTTP layer *)

\* the requests the handlers of main.go's routes have answered
Answered == {r \in Requests : reqs[r].pc = "done" /\ "route" \in DOMAIN reqs[r]}

----------------------------------------------------------------------------
(* Claims about the process *)

\* no request has reached a handler
NoRequestServed == \A r \in Requests : reqs[r].pc = "idle"

\* C15: the process serves only after InitDB found DATABASE_URL set and made
\* the pool, and then CreateTables returned nil, in that order; when either
\* fails the process ends, and a process that has not come to serve has
\* served no request.
C15_ServesOnlyAfterStartup ==
    /\ [](main \in {"InitDB", "CreateTables", "Run", "exit"} => NoRequestServed)
    /\ [][/\ (main' = "CreateTables" /\ main /= "CreateTables") =>
                /\ main = "InitDB"
                /\ last'.op = "InitDB"
                /\ last'.arg \cap {""} = {}
                /\ last'.err = NoErr
          /\ (main' = "Run" /\ main /= "Run") =>
                /\ main = "CreateTables"
                /\ last'.op = "CreateTables"
                /\ last'.err = NoErr
          /\ (main' = "serving" /\ main /= "serving") => main = "Run"
          /\ (last'.op \in {"InitDB", "CreateTables"} /\ last' /= last /\ last'.err /= NoErr) =>
                main' = "exit"
          /\ (reqs' /= reqs /\ ~NoRequestServed') => (main = "serving" /\ main' = "serving")]_vars

\* a request was answered by a process that came to serve
C15_Witness ==
    /\ main = "serving"
    /\ \E r \in Requests : reqs[r].pc = "done"

C17_CallsNeverEndTheProcess ==
    [][(main = "serving" /\ last'.op \in Routes /\ last' /= last) => main' = "serving"]_vars

\* after a call failed because the store could not be reached and was
\* answered 500, the server has taken a further request
C17_Witness ==
    /\ main = "serving"
    /\ \E r \in Answered : reqs[r].err = ErrConnect /\ reqs[r].status = 500
    /\ \E r \in Requests : reqs[r].pc = "routed"

----------------------------------------------------------------------------
(* Claims about list order *)

\* the tables whose list is documented as ordered by id, and by created_at
IdOrdered == {"clinics", "patients", "employees", "services"}
TimeOrdered == {"appointments", "waiting_list"}

\* s runs upwards, or downwards, in column k
Ascending(s, k) == \A i, j \in 1..Len(s) : i < j => s[i][k] <= s[j][k]
Descending(s, k) == \A i, j \in 1..Len(s) : i < j => s[i][k] >= s[j][k]

\* C18: a list call returns the rows by ascending id for clinics, patients,
\* employees and services and in the order of created_at for appointments
\* and the waiting list, and the contents of a table allow one sequence
\* only, also when rows share the value of the ordering key.
C18_ListOrderStable ==
    /\ \A t \in TableNames : Cardinality(List(t)) = 1
    /\ (last.op \in ListOps /\ last.err = NoErr) =>
          /\ TableOfOp(last.op) \in IdOrdered =>
                \A i, j \in 1..Len(last.out) : i < j => last.out[i].id < last.out[j].id
          /\ TableOfOp(last.op) \in TimeOrdered =>
                Ascending(last.out, "created_at") \/ Descending(last.out, "created_at")

----------------------------------------------------------------------------
(* Claims about freed and kept slots *)

\* the record a keeps the employee and the interval of the stored row old
KeepsSlot(old, a) ==
    /\ a.employee_id = old.employee_id
    /\ a.start_datetime = old.start_datetime
    /\ a.end_datetime = old.end_datetime

\* a stored appointment of the employee of p, with a status that holds its
\* slot, intersects the interval of p
SlotTaken(p) ==
    \E j \in DOMAIN appointments :
        /\ appointments[j].employee_id = p.employee_id
        /\ ActiveStatus(appointments[j].status)
        /\ Intersect(appointments[j].start_datetime, appointments[j].end_datetime,
                     p.start_datetime, p.end_datetime)

\* C19: an UpdateAppointment of a stored row with a record that keeps the
\* row's employee and interval, has valid enum values and names stored
\* parents returns nil and stores the record's other fields: the row is not
\* held against itself.
C19_UpdateKeepsOwnSlot ==
    [][\A a \in last'.arg :
          ( /\ last'.op = "UpdateAppointment"
            /\ last'.id \in DOMAIN appointments
            /\ KeepsSlot(appointments[last'.id], a)
            /\ ~AppointmentEnumInvalid(a)
            /\ ~AppointmentParentsMissing(a) )
          => /\ last'.err = NoErr
             /\ last'.id \in DOMAIN appointments'
             /\ KeepsSlot(appointments'[last'.id], a)
             /\ appointments'[last'.id].status = a.status
             /\ appointments'[last'.id].medical_notes = a.medical_notes]_vars

\* an active appointment was updated in its own slot: new notes, same
\* employee and interval
C19_Witness ==
    /\ last.op = "UpdateAppointment"
    /\ last.err = NoErr
    /\ last.arg = {ApptFirstAs("COMPLETED")}
    /\ last.id \in DOMAIN appointments
    /\ KeepsSlot(appointments[last.id], ApptFirst)
    /\ appointments[last.id].status = "COMPLETED"
    /\ appointments[last.id].medical_notes = Ptr("seen")

\* C20: a CreateAppointment with valid enum values and stored parents, whose
\* interval no stored active appointment of the employee intersects, returns
\* nil and stores the appointment; stored CANCELLED and NO_SHOW appointments
\* and deleted ones do not count.
C20_FreedSlotCanBeBooked ==
    [][\A p \in last'.arg :
          ( /\ last'.op = "CreateAppointment"
            /\ ~AppointmentEnumInvalid(p)
            /\ ~AppointmentParentsMissing(p)
            /\ ~SlotTaken(p) )
          => /\ last'.err = NoErr
             /\ \E id \in DOMAIN appointments' \ DOMAIN appointments :
                   /\ appointments'[id].employee_id = p.employee_id
                   /\ appointments'[id].start_datetime = Timestamptz(p.start_datetime)
                   /\ appointments'[id].end_datetime = Timestamptz(p.end_datetime)
                   /\ appointments'[id].status = p.status]_vars

\* appointment 1 was cancelled and appointment 2, of the same employee and
\* intersecting it, was created
C20_Witness ==
    /\ last.op = "CreateAppointment"
    /\ last.err = NoErr
    /\ NewIds = {2}
    /\ DOMAIN appointments = {1, 2}
    /\ appointments[1].status = "CANCELLED"
    /\ ActiveStatus(appointments[2].status)
    /\ appointments[1].employee_id = appointments[2].employee_id
    /\ Intersect(appointments[1].start_datetime, appointments[1].end_datetime,
                 appointments[2].start_datetime, appointments[2].end_datetime)

----------------------------------------------------------------------------
(* The caller while the store's clock runs: creates and updates, with time  *)
(* passing between the statements, so that CURRENT_TIMESTAMP differs from   *)
(* one statement to the next.                                               *)

\* the records the caller updates an appointment with: other notes and
\* status in the same slot, another slot, no status
AppointmentUpdates == {ApptFirstAs("COMPLETED"), ApptSecond, ApptNoStatus}

NextClock ==
    \/ Tick
    \/ InScope("clinics") /\ \E p \in ClinicInputs : CreateClinic(p)
    \/ InScope("patients") /\ \E p \in PatientInputs : CreatePatient(p)
    \/ InScope("employees") /\ \E p \in EmployeeInputs : CreateEmployee(p)
    \/ InScope("services") /\ \E p \in ServiceInputs : CreateService(p)
    \/ under_test = "appointments" /\ \E p \in AppointmentBodies : CreateAppointment(p)
    \/ under_test = "waiting_list"
         /\ \E p \in WaitingListInputs : CreateWaitingListItem(p)
    \/ under_test = "clinics" /\ \E id \in IdArgs, p \in ClinicInputs : UpdateClinic(id, p)
    \/ under_test = "patients" /\ \E id \in IdArgs, p \in PatientInputs : UpdatePatient(id, p)
    \/ under_test = "employees" /\ \E id \in IdArgs, p \in EmployeeInputs : UpdateEmployee(id, p)
    \/ under_test = "services" /\ \E id \in IdArgs, p \in ServiceInputs : UpdateService(id, p)
    \/ under_test = "appointments"
         /\ \E id \in IdArgs, p \in AppointmentUpdates : UpdateAppointment(id, p)
    \/ under_test = "waiting_list"
         /\ \E id \in IdArgs, p \in WaitingListInputs : UpdateWaitingListItem(id, p)

SpecClock == Init /\ [][NextClock]_vars

----------------------------------------------------------------------------
(* Claims about what a call leaves alone *)

\* the rows of table t after the step
RowsAfter(t) ==
    CASE t = "clinics" -> clinics'
      [] t = "patients" -> patients'
      [] t = "employees" -> employees'
      [] t = "services" -> services'
      [] t = "appointments" -> appointments'
      [] t = "waiting_list" -> waiting_list'
      [] OTHER -> <<>>

\* C21: an update(id, e) changes no table but its own, adds and removes no
\* row, changes no row but the one with the id of the call, and leaves the
\* id and created_at of that row as they were, whatever id e carries; an
\* UpdateAppointment that replaced a row set its updated_at to the time of
\* the statement.
C21_UpdateTouchesOneRow ==
    [][(last'.op \in UpdateOps /\ now' = now) =>
          LET t == TableOfOp(last'.op)
              id == last'.id
          IN  /\ \A u \in TableNames \ {t} : RowsAfter(u) = Rows(u)
              /\ DOMAIN RowsAfter(t) = DOMAIN Rows(t)
              /\ \A i \in DOMAIN Rows(t) :
                    /\ i /= id => RowsAfter(t)[i] = Rows(t)[i]
                    /\ RowsAfter(t)[i].id = Rows(t)[i].id
                    /\ "created_at" \in DOMAIN Rows(t)[i] =>
                          RowsAfter(t)[i].created_at = Rows(t)[i].created_at
              /\ (t = "appointments" /\ id \in DOMAIN appointments /\ last'.err = NoErr) =>
                    appointments'[id].updated_at = now]_vars

\* appointment 1 of two was updated, after the clock moved, with a record
\* that carries id 7: it is still row 1, created when it was, updated later,
\* and row 2 is as it was created
C21_Witness ==
    /\ last.op = "UpdateAppointment"
    /\ last.err = NoErr
    /\ last.id = 1
    /\ last.arg = {ApptFirstAs("COMPLETED")}
    /\ DOMAIN appointments = {1, 2}
    /\ appointments[1].id = 1
    /\ appointments[1].status = "COMPLETED"
    /\ appointments[1].updated_at > appointments[1].created_at
    /\ appointments[2].status /= "COMPLETED"
    /\ appointments[2].updated_at = appointments[2].created_at

\* the calls that write: creates, updates and deletes
WriteOps == PostRoutes \cup UpdateOps \cup DeleteOps

\* C22: a create, update or delete that returns an error leaves every table
\* as it was before the call, and a list or get changes no table and no
\* sequence.
C22_FailedCallWritesNothing ==
    [][/\ (last'.op \in WriteOps /\ last'.err /= NoErr) => tables' = tables
       /\ last'.op \in ListOps \cup GetOps => (tables' = tables /\ seq' = seq)]_vars

\* an update of clinic 2 was refused for its name and the table holds both
\* clinics with their own names and addresses
C22_Witness ==
    /\ last.op = "UpdateClinic"
    /\ last.err = UniqueViolation
    /\ last.id = 2
    /\ last.arg = {ClinicA2}
    /\ DOMAIN clinics = {1, 2}
    /\ clinics[1].name = ClinicA.name
    /\ clinics[2].name = ClinicB.name
    /\ clinics[2].address = ClinicB.address

----------------------------------------------------------------------------
(* Claims about enum columns *)

\* every stored status, payment_status and urgency_level is a value of its type
EnumsValid ==
    /\ \A i \in DOMAIN appointments :
          /\ appointments[i].status \in AppointmentStatus
          /\ appointments[i].payment_status \in PaymentStatus
    /\ \A i \in DOMAIN waiting_list :
          /\ waiting_list[i].urgency_level \in UrgencyLevel
          /\ waiting_list[i].status \in WaitingListStatus

\* the record e of call op carries a status, payment_status or urgency_level
\* that is no value of its type
CarriesBadEnum(op, e) ==
    CASE op \in {"CreateAppointment", "UpdateAppointment"} ->
            e.status \notin AppointmentStatus \/ e.payment_status \notin PaymentStatus
      [] op \in {"CreateWaitingListItem", "UpdateWaitingListItem"} ->
            e.urgency_level \notin UrgencyLevel \/ e.status \notin WaitingListStatus
      [] OTHER -> FALSE

----------------------------------------------------------------------------
(* Claims about deletes *)

\* no stored employee, appointment or waiting-list row names row id of
\* table t
NoDependents(t, id) ==
    /\ t = "clinics" =>
          /\ \A e \in DOMAIN employees : employees[e].clinic_id /= id
          /\ \A a \in DOMAIN appointments : appointments[a].clinic_id /= id
    /\ t = "patients" =>
          /\ \A a \in DOMAIN appointments : appointments[a].patient_id /= id
          /\ \A w \in DOMAIN waiting_list : waiting_list[w].patient_id /= id
    /\ t = "employees" =>
          /\ \A a \in DOMAIN appointments : appointments[a].employee_id /= id
          /\ \A w \in DOMAIN waiting_list : id \notin waiting_list[w].preferred_employee_id
    /\ t = "services" =>
          /\ \A a \in DOMAIN appointments : appointments[a].service_id /= id
          /\ \A w \in DOMAIN waiting_list : waiting_list[w].service_id /= id

\* C24: the delete of a stored row that no stored row refers to returns nil
\* and removes the row, so a caller that deletes the dependent rows first
\* can delete every row it created.
C24_DeleteInDependencyOrder ==
    [][(/\ last'.op \in DeleteOps
        /\ last'.id \in DOMAIN Rows(TableOfOp(last'.op))
        /\ NoDependents(TableOfOp(last'.op), last'.id))
       => /\ last'.err = NoErr
          /\ DOMAIN RowsAfter(TableOfOp(last'.op)) =
                DOMAIN Rows(TableOfOp(last'.op)) \ {last'.id}]_vars

\* the appointment test has created its rows and deleted them, the clinic
\* last: every table is empty again
C24_Witness ==
    /\ under_test = "appointments"
    /\ last.op = "DeleteClinic"
    /\ last.err = NoErr
    /\ calls.creates >= 1
    /\ calls.removed >= 1
    /\ \A t \in TableNames : Rows(t) = <<>>
    /\ \A t \in Parents("appointments") : seq[t] > 1

----------------------------------------------------------------------------
(* Claims about the pool *)

\* C25: a process that has ended after InitDB made the pool has closed the
\* pool.
C25_PoolClosedAtExit == main = "exit" => DB \in {"nil", "closed"}

----------------------------------------------------------------------------
(* Claims about the bootstrap run again *)

\* the store as a CreateTables that returned nil leaves it: every table,
\* type and index of the statements exists, no table holds a row, every
\* sequence is at its start
Bootstrapped ==
    /\ schema = {Statements[i].name : i \in DOMAIN Statements}
    /\ Holding = {}
    /\ \A t \in TableNames : seq[t] = 1

\* C26: a CreateTables that returned nil leaves the store bootstrapped, and
\* a CreateTables run on a bootstrapped store, unless the store is lost
\* during it, returns nil and leaves schema, rows and sequences as it found
\* them.
C26_CreateTablesTwice ==
    /\ []((last.op = "CreateTables" /\ last.err = NoErr) => Bootstrapped)
    /\ [][(/\ main = "CreateTables"
           /\ last'.op = "CreateTables"
           /\ last'.err /= ErrConnect
           /\ Bootstrapped)
          => /\ last'.err = NoErr
             /\ schema' = schema
             /\ tables' = tables
             /\ seq' = seq]_vars

\* CreateTables returned nil on a store in which every object of the
\* statements existed already and no table held a row
C26_Witness ==
    /\ last.op = "CreateTables"
    /\ last.err = NoErr
    /\ main = "Run"
    /\ \E c \in last.arg : c.existed = schema /\ c.held = {}
    /\ Cardinality(schema) = Len(EnumTypes) + Len(CreateOrder) + Len(Indexes)

----------------------------------------------------------------------------
(* Claims about ids *)

\* C27: every stored id of a table is below the table's sequence, which
\* never goes back; a create that returns nil returns an id that is not
\* below the sequence, whatever id its record carried, so one larger than
\* every id stored now or before, then below the sequence, and stores its
\* row under it.
C27_IdsFromTheStore ==
    /\ [](\A t \in TableNames : \A i \in DOMAIN Rows(t) : i < seq[t] /\ Rows(t)[i].id = i)
    /\ [][/\ \A t \in TableNames : seq'[t] >= seq[t]
          /\ (last'.op \in PostRoutes /\ last'.err = NoErr) =>
                LET t == TableOfOp(last'.op)
                    id == last'.out[1].id
                IN  /\ id >= seq[t]
                    /\ id < seq'[t]
                    /\ \A i \in DOMAIN Rows(t) : i < id
                    /\ DOMAIN RowsAfter(t) = DOMAIN Rows(t) \cup {id}]_vars

\* clinic 1 was created and deleted, and a record carrying id 7 was then
\* created as clinic 2
C27_Witness ==
    /\ last.op = "CreateClinic"
    /\ last.err = NoErr
    /\ last.arg = {ClinicA2}
    /\ last.out[1].id = 2
    /\ DOMAIN clinics = {2}
    /\ calls.removed = 1

----------------------------------------------------------------------------
(* Claims about the columns CreateAppointment leaves out *)

\* C28: CreateAppointment never stores medical_notes or cancellation_reason:
\* right after a successful create, GetAppointment of the returned id finds
\* the row with both columns null, whatever the record passed in carried;
\* and a step that gives either column of a row a value it did not have is a
\* successful UpdateAppointment of that row's id
C28_CreateLeavesNotesNull ==
    /\ []((last.op = "CreateAppointment" /\ last.err = NoErr) =>
              LET got == QueryRowAppointment(last.out[1].id)
              IN  /\ got.err = NoErr
                  /\ got.out[1].medical_notes = Nil
                  /\ got.out[1].cancellation_reason = Nil)
    /\ [][\A i \in DOMAIN appointments' :
              (\/ appointments'[i].medical_notes /= Nil
               \/ appointments'[i].cancellation_reason /= Nil) =>
                 \/ /\ i \in DOMAIN appointments
                    /\ appointments'[i].medical_notes = appointments[i].medical_notes
                    /\ appointments'[i].cancellation_reason =
                           appointments[i].cancellation_reason
                 \/ /\ last'.op = "UpdateAppointment"
                    /\ last'.err = NoErr
                    /\ last'.id = i
                    /\ i \in DOMAIN appointments]_vars

\* an appointment was created from a record that carries medical notes and a
\* cancellation reason, and its row holds neither
C28_Witness ==
    /\ last.op = "CreateAppointment"
    /\ last.err = NoErr
    /\ last.arg = {ApptFirstAs("COMPLETED")}
    /\ \A p \in last.arg : p.medical_notes /= Nil /\ p.cancellation_reason /= Nil
    /\ appointments[last.out[1].id].medical_notes = Nil
    /\ appointments[last.out[1].id].cancellation_reason = Nil

----------------------------------------------------------------------------
(* Claims about deleting what is not there *)

\* C29: a delete of an id that has no row returns nil and changes no table
\* and no sequence; a delete that returns nil leaves no row of that id, so a
\* second delete of the same id is a delete of an id with no row and returns
\* nil with the same state.  For the delete of each of the six tables.
C29_DeleteIsIdempotent ==
    [][last'.op \in DeleteOps =>
          LET t == TableOfOp(last'.op)
          IN  /\ last'.id \notin DOMAIN Rows(t) =>
                     /\ last'.err = NoErr
                     /\ tables' = tables
                     /\ seq' = seq
              /\ last'.err = NoErr =>
                     /\ last'.id \notin DOMAIN RowsAfter(t)
                     /\ \A u \in TableNames \ {t} : RowsAfter(u) = Rows(u)
                     /\ \A i \in DOMAIN Rows(t) \ {last'.id} :
                            i \in DOMAIN RowsAfter(t) /\ RowsAfter(t)[i] = Rows(t)[i]]_vars

\* appointment 1 was created and two deletes were made, the last one of
\* id 1: one removed the row, the other found no row, and both returned nil
C29_Witness ==
    /\ under_test = "appointments"
    /\ last.op = "DeleteAppointment"
    /\ last.id = 1
    /\ last.err = NoErr
    /\ seq.appointments = 2
    /\ appointments = <<>>
    /\ calls.deletes = 2
    /\ calls.removed = 1

----------------------------------------------------------------------------
(* The row iteration of the list functions when the store fails under it.  *)
(* pgx streams the result: rows.Next() returns false when the rows are     *)
(* through and also when reading them failed, and only rows.Err() tells    *)
(* the two apart.  The six list functions return `xs, nil` after the loop  *)
(* without a call of rows.Err().                                            *)

\* `for rows.Next() { ...; xs = append(xs, x) }` over the result s, when
\* rows.Next() returns true `read` times and then false
Appended(s, read) == SubSeq(s, 1, read)

\* a list call whose connection fails after `read` rows, with more to come
GetClinicsNextFails(read) ==
    /\ \E s \in QueryClinics :
           /\ read < Len(s)
           /\ last' = Call("GetClinics", ZeroInt, {}, NoErr, Appended(s, read))
    /\ UNCHANGED <<tables, seq, now, calls, reqs, under_test, main, DB, schema>>

GetPatientsNextFails(read) ==
    /\ \E s \in QueryPatients :
           /\ read < Len(s)
           /\ last' = Call("GetPatients", ZeroInt, {}, NoErr, Appended(s, read))
    /\ UNCHANGED <<tables, seq, now, calls, reqs, under_test, main, DB, schema>>

GetEmployeesNextFails(read) ==
    /\ \E s \in QueryEmployees :
           /\ read < Len(s)
           /\ last' = Call("GetEmployees", ZeroInt, {}, NoErr, Appended(s, read))
    /\ UNCHANGED <<tables, seq, now, calls, reqs, under_test, main, DB, schema>>

GetServicesNextFails(read) ==
    /\ \E s \in QueryServices :
           /\ read < Len(s)
           /\ last' = Call("GetServices", ZeroInt, {}, NoErr, Appended(s, read))
    /\ UNCHANGED <<tables, seq, now, calls, reqs, under_test, main, DB, schema>>

GetAppointmentsNextFails(read) ==
    /\ \E s \in QueryAppointments :
           /\ read < Len(s)
           /\ last' = Call("GetAppointments", ZeroInt, {}, NoErr, Appended(s, read))
    /\ UNCHANGED <<tables, seq, now, calls, reqs, under_test, main, DB, schema>>

GetWaitingListNextFails(read) ==
    /\ \E s \in QueryWaitingList :
           /\ read < Len(s)
           /\ last' = Call("GetWaitingList", ZeroInt, {}, NoErr, Appended(s, read))
    /\ UNCHANGED <<tables, seq, now, calls, reqs, under_test, main, DB, schema>>

\* a caller that fills the tables and lists them, over a connection that
\* may fail while a result is read
NextRows ==
    \/ InScope("clinics") /\ \E p \in ClinicInputs : CreateClinic(p)
    \/ InScope("patients") /\ \E p \in PatientInputs : CreatePatient(p)
    \/ InScope("employees") /\ \E p \in EmployeeInputs : CreateEmployee(p)
    \/ InScope("services") /\ \E p \in ServiceInputs : CreateService(p)
    \/ under_test = "appointments" /\ \E p \in AppointmentBodies : CreateAppointment(p)
    \/ under_test = "waiting_list" /\ \E p \in WaitingListInputs : CreateWaitingListItem(p)
    \/ under_test = "clinics" /\ GetClinics
    \/ under_test = "patients" /\ GetPatients
    \/ under_test = "employees" /\ GetEmployees
    \/ under_test = "services" /\ GetServices
    \/ under_test = "appointments" /\ GetAppointments
    \/ under_test = "waiting_list" /\ GetWaitingList
    \/ under_test = "clinics" /\ \E read \in 0..MaxId : GetClinicsNextFails(read)
    \/ under_test = "patients" /\ \E read \in 0..MaxId : GetPatientsNextFails(read)
    \/ under_test = "employees" /\ \E read \in 0..MaxId : GetEmployeesNextFails(read)
    \/ under_test = "services" /\ \E read \in 0..MaxId : GetServicesNextFails(read)
    \/ under_test = "appointments" /\ \E read \in 0..MaxId : GetAppointmentsNextFails(read)
    \/ under_test = "waiting_list" /\ \E read \in 0..MaxId : GetWaitingListNextFails(read)

SpecRows == Init /\ [][NextRows]_vars

\* C30: a list function never reports success with an incomplete result:
\* whenever a list call has returned a nil error, the sequence it returned
\* holds every row of its table, also when the iteration over the result
\* was cut short by a failure of the store after some rows were read
C30_ListNeverPartial ==
    (last.op \in ListOps /\ last.err = NoErr) =>
        \A id \in DOMAIN Rows(TableOfOp(last.op)) :
            \E i \in 1..Len(last.out) : last.out[i] = Rows(TableOfOp(last.op))[id]

====
